---------------------------- MODULE Spec2Model ----------------------------
(***************************************************************************)
(* A model of the LocalNotes storage engine (src-tauri/src/storage.rs).    *)
(*                                                                         *)
(* Text (ids, titles, bodies, tags) is a sequence of one-character         *)
(* strings.  The file system is one record `fs`: the index file and its    *)
(* temporary sibling (each a sequence of written chunks plus the part of   *)
(* it known to be on stable storage), the body files, the version          *)
(* directories and the image directories.  Every storage operation is an   *)
(* operator from a file system to a file system and a result; the          *)
(* specifications below run these operators either as whole handlers       *)
(* (Spec), as the stretches of one save (SpecRetention), or one file       *)
(* operation of write_index at a time (SpecCrash, SpecRace).               *)
(*                                                                         *)
(* Environment assumptions of the sequential specifications: file          *)
(* operations do not fail, two operations never read the same instant      *)
(* from the clock (every mutation ends with a synced index write), and     *)
(* Uuid::new_v4 never returns an id that is in use.                        *)
(***************************************************************************)
EXTENDS Integers, Sequences, FiniteSets, TLC

(***************************************************************************)
(* Characters and strings                                                  *)
(***************************************************************************)

\* The characters the model uses, in code-point order.
Alphabet ==
    << "\n", " ", "#", "(", ")", "*", "-", ".", "/",
       "0", "1", "2", "3", "4", "5", "6", "7", "8", "9", ":",
       "A", "B", "C", "X", "[", "]", "_",
       "a", "b", "c", "d", "e", "g", "h", "i", "k", "l", "m", "n", "o", "p",
       "r", "s", "t", "u", "w", "x", "y" >>

CharCode(c) == CHOOSE i \in 1..Len(Alphabet) : Alphabet[i] = c

Digits == {"0", "1", "2", "3", "4", "5", "6", "7", "8", "9"}
UpperCase == {"A", "B", "C", "X"}
LowerCase ==
    {"a", "b", "c", "d", "e", "g", "h", "i", "k", "l", "m", "n", "o", "p",
     "r", "s", "t", "u", "w", "x", "y"}

is_alphanumeric(c) == c \in Digits \cup UpperCase \cup LowerCase

is_control(c) == c = "\n"

is_whitespace(c) == c \in {" ", "\n"}

char_to_lowercase(c) ==
    CASE c = "A" -> "a"
      [] c = "B" -> "b"
      [] c = "C" -> "c"
      [] c = "X" -> "x"
      [] OTHER -> c

to_lowercase(s) == [i \in 1..Len(s) |-> char_to_lowercase(s[i])]

\* Byte-wise lexicographic order of two strings (Rust's Ord for String).
RECURSIVE StrLess(_, _)
StrLess(a, b) ==
    IF b = <<>> THEN FALSE
    ELSE IF a = <<>> THEN TRUE
    ELSE IF a[1] = b[1] THEN StrLess(Tail(a), Tail(b))
    ELSE CharCode(a[1]) < CharCode(b[1])

\* The elements of a set of strings as an ascending sequence
\* (HashSet -> Vec, then sort()).
RECURSIVE SortStrings(_)
SortStrings(S) ==
    IF S = {} THEN <<>>
    ELSE LET m == CHOOSE x \in S : \A y \in S \ {x} : StrLess(x, y)
         IN  <<m>> \o SortStrings(S \ {m})

SeqToSet(s) == {s[i] : i \in 1..Len(s)}

Contains(s, x) == \E i \in 1..Len(s) : s[i] = x

\* str::trim
RECURSIVE TrimStart(_)
TrimStart(s) ==
    IF s # <<>> /\ is_whitespace(s[1]) THEN TrimStart(Tail(s)) ELSE s

RECURSIVE TrimEnd(_)
TrimEnd(s) ==
    IF s # <<>> /\ is_whitespace(s[Len(s)])
    THEN TrimEnd(SubSeq(s, 1, Len(s) - 1))
    ELSE s

Trim(s) == TrimEnd(TrimStart(s))

(***************************************************************************)
(* Annotator: tags and links                                               *)
(***************************************************************************)

\* A tag character test that leaves the dash out.
is_tag_char_no_dash(c) == is_alphanumeric(c) \/ c = "_"

is_tag_char(c) == is_alphanumeric(c) \/ c = "_" \/ c = "-"

\* The run of tag characters at the head of s.
RECURSIVE TagRun(_)
TagRun(s) ==
    IF s # <<>> /\ is_tag_char(s[1]) THEN <<s[1]>> \o TagRun(Tail(s)) ELSE <<>>

\* The set of tags the scan of `body` collects (the loop of
\* extract_tags_from_body: after a '#', the run is consumed).
RECURSIVE ScanTags(_)
ScanTags(body) ==
    IF body = <<>> THEN {}
    ELSE IF body[1] = "#"
         THEN LET tag  == TagRun(Tail(body))
                  rest == SubSeq(body, 2 + Len(tag), Len(body))
              IN  (IF tag # <<>> THEN {tag} ELSE {}) \cup ScanTags(rest)
         ELSE ScanTags(Tail(body))

extract_tags_from_body(body) == SortStrings(ScanTags(body))

\* split_whitespace: the maximal runs of non-whitespace characters.
RECURSIVE SplitWhitespace(_, _)
SplitWhitespace(s, cur) ==
    IF s = <<>> THEN (IF cur = <<>> THEN <<>> ELSE <<cur>>)
    ELSE IF is_whitespace(s[1])
         THEN (IF cur = <<>> THEN <<>> ELSE <<cur>>) \o SplitWhitespace(Tail(s), <<>>)
         ELSE SplitWhitespace(Tail(s), Append(cur, s[1]))

RECURSIVE Join(_, _)
Join(parts, sep) ==
    IF parts = <<>> THEN <<>>
    ELSE IF Len(parts) = 1 THEN parts[1]
    ELSE parts[1] \o sep \o Join(Tail(parts), sep)

TitleSlug(title) ==
    LET kept  == [i \in 1..Len(title) |->
                    IF is_alphanumeric(title[i]) \/ title[i] \in {" ", "-", "_"}
                    THEN title[i] ELSE " "]
        parts == SplitWhitespace(kept, <<>>)
    IN  Join([i \in 1..Len(parts) |-> to_lowercase(parts[i])], <<"-">>)

extract_tags_from_title(title) ==
    LET slug == TitleSlug(title)
    IN  IF Len(slug) >= 2 /\ \E i \in 1..Len(slug) : is_alphanumeric(slug[i])
        THEN <<slug>>
        ELSE <<>>

\* The inner loop of extract_links_from_body, entered after "[[": returns the
\* captured title and the unread rest of the text.  A "]" not followed by a
\* second "]" is pushed together with the character after it; at the end of
\* the text that character does not exist and chars.next().unwrap() panics.
RECURSIVE LinkToken(_, _)
LinkToken(s, title) ==
    IF s = <<>> THEN [title |-> title, rest |-> <<>>, panic |-> FALSE]
    ELSE IF s[1] = "]"
         THEN IF Len(s) >= 2 /\ s[2] = "]"
              THEN [title |-> title, rest |-> SubSeq(s, 3, Len(s)), panic |-> FALSE]
              ELSE IF Len(s) = 1
                   THEN [title |-> title, rest |-> <<>>, panic |-> TRUE]
                   ELSE LinkToken(SubSeq(s, 3, Len(s)), title \o <<"]", s[2]>>)
         ELSE LinkToken(Tail(s), Append(title, s[1]))

\* A resolution that takes the last matching note instead of the first.
ResolveTitle_last(lower, notes, exclude_id) ==
    LET hits == {i \in 1..Len(notes) :
                    notes[i].id # exclude_id /\ to_lowercase(notes[i].title) = lower}
    IN  IF hits = {} THEN {}
        ELSE {notes[CHOOSE i \in hits : \A j \in hits : i >= j].id}

\* The first note, in index order, other than exclude_id whose title matches.
ResolveTitle(lower, notes, exclude_id) ==
    LET hits == {i \in 1..Len(notes) :
                    notes[i].id # exclude_id /\ to_lowercase(notes[i].title) = lower}
    IN  IF hits = {} THEN {}
        ELSE {notes[CHOOSE i \in hits : \A j \in hits : i <= j].id}

RECURSIVE ScanLinks(_, _, _)
ScanLinks(body, notes, exclude_id) ==
    IF body = <<>> THEN [ids |-> {}, panic |-> FALSE]
    ELSE IF body[1] = "[" /\ Len(body) >= 2 /\ body[2] = "["
         THEN LET tok   == LinkToken(SubSeq(body, 3, Len(body)), <<>>)
                  title == Trim(tok.title)
                  found == IF title # <<>>
                           THEN ResolveTitle(to_lowercase(title), notes, exclude_id)
                           ELSE {}
                  more  == ScanLinks(tok.rest, notes, exclude_id)
              IN  IF tok.panic THEN [ids |-> {}, panic |-> TRUE]
                  ELSE [ids |-> found \cup more.ids, panic |-> more.panic]
         ELSE ScanLinks(Tail(body), notes, exclude_id)

extract_links_from_body(body, notes, exclude_id) ==
    SortStrings(ScanLinks(body, notes, exclude_id).ids)

links_panic(body) == ScanLinks(body, <<>>, <<>>).panic

(***************************************************************************)
(* PathSandbox                                                             *)
(***************************************************************************)

\* A character map that lets the colon through.
SanitizeChar_keeps_colon(c) ==
    IF c \in {"/", "\\", "*", "?", "\"", "<", ">", "|"} \/ is_control(c)
    THEN "_" ELSE c

SanitizeChar(c) ==
    IF c \in {"/", "\\", ":", "*", "?", "\"", "<", ">", "|"} \/ is_control(c)
    THEN "_" ELSE c

\* The longest name sanitize_filename returns.
MAX_FILENAME_CHARS == 200

Take(s, n) == SubSeq(s, 1, IF Len(s) < n THEN Len(s) ELSE n)

sanitize_filename(name) ==
    Take(Trim([i \in 1..Len(name) |-> SanitizeChar(name[i])]), MAX_FILENAME_CHARS)

\* A validator that lets ".." through.
validate_note_id_allows_dotdot(id) ==
    /\ id # <<>>
    /\ ~Contains(id, "/")
    /\ ~Contains(id, "\\")
    /\ id # <<".">>
    /\ \A i \in 1..Len(id) : ~is_control(id[i])

\* TRUE when the id is accepted (Ok), FALSE when it is rejected (Err).
validate_note_id(id) ==
    /\ id # <<>>
    /\ ~Contains(id, "/")
    /\ ~Contains(id, "\\")
    /\ id # <<".">>
    /\ id # <<".", ".">>
    /\ \A i \in 1..Len(id) : ~is_control(id[i])

(***************************************************************************)
(* Data model                                                              *)
(***************************************************************************)

\* Utc::now().to_rfc3339() at instant t: the text is written with ':' in
\* its time part, and texts of later instants are greater as strings.
Rfc3339(t) == [t |-> t, colon |-> TRUE]

TimeLess(a, b) == a.t < b.t \/ (a.t = b.t /\ ~a.colon /\ b.colon)

\* version_filename: ':' becomes '-', ".json" is appended.
version_filename(saved_at) == [t |-> saved_at.t, ext |-> "json"]

TxtSuffix == <<".", "t", "x", "t">>

note_path(note_id) == sanitize_filename(note_id) \o TxtSuffix

versions_dir(note_id) == sanitize_filename(note_id)

images_dir(note_id) == sanitize_filename(note_id)

\* Option<&str> / Option<String>: None, or Some(text).
None == [some |-> FALSE, v |-> <<>>]
Some(x) == [some |-> TRUE, v |-> x]

NewNoteMeta(id, title, now, tags, links_to, is_daily) ==
    [ id          |-> id,
      title       |-> title,
      created_at  |-> now,
      updated_at  |-> now,
      important   |-> FALSE,
      filename    |-> id \o TxtSuffix,
      images      |-> <<>>,
      tags        |-> tags,
      links_to    |-> links_to,
      is_daily    |-> is_daily,
      notebook_id |-> None ]

\* IndexFile::default()
EmptyIndex == [notes |-> <<>>, notebooks |-> <<>>]

\* iter().position(|n| n.id == id): 0 stands for None.
Position(notes, id) ==
    LET hits == {i \in 1..Len(notes) : notes[i].id = id}
    IN  IF hits = {} THEN 0 ELSE CHOOSE i \in hits : \A j \in hits : i <= j

RemoveAt(s, i) == SubSeq(s, 1, i - 1) \o SubSeq(s, i + 1, Len(s))

(***************************************************************************)
(* The JSON form of the index (models.rs)                                  *)
(***************************************************************************)

\* Option<u64>
NoSize == [some |-> FALSE, v |-> 0]
SomeSize(n) == [some |-> TRUE, v |-> n]

\* An Option as a JSON value: null, or the value.
OptToJson(o) == [null |-> ~o.some, v |-> o.v]
OptFromJson(j) == [some |-> ~j.null, v |-> j.v]

\* A key of a JSON object, or the default of a #[serde(default)] field.
Field(o, key, default) == IF key \in DOMAIN o THEN o[key] ELSE default

ImageToJson(i) ==
    [name |-> i.name, path |-> i.path, addedAt |-> i.added_at,
     size |-> OptToJson(i.size)]

ImageFromJson(o) ==
    [name |-> o.name, path |-> o.path, added_at |-> o.addedAt,
     size |-> IF "size" \in DOMAIN o THEN OptFromJson(o.size) ELSE NoSize]

\* A note object that keeps the Rust name of the links_to field.
NoteToJson_unrenamed(n) ==
    [id |-> n.id, title |-> n.title, createdAt |-> n.created_at,
     updatedAt |-> n.updated_at, important |-> n.important,
     filename |-> n.filename,
     images |-> [k \in 1..Len(n.images) |-> ImageToJson(n.images[k])],
     tags |-> n.tags, links_to |-> n.links_to, isDaily |-> n.is_daily,
     notebookId |-> OptToJson(n.notebook_id)]

NoteToJson(n) ==
    [id |-> n.id, title |-> n.title, createdAt |-> n.created_at,
     updatedAt |-> n.updated_at, important |-> n.important,
     filename |-> n.filename,
     images |-> [k \in 1..Len(n.images) |-> ImageToJson(n.images[k])],
     tags |-> n.tags, linksTo |-> n.links_to, isDaily |-> n.is_daily,
     notebookId |-> OptToJson(n.notebook_id)]

NoteFromJson(o) ==
    [id |-> o.id, title |-> o.title, created_at |-> o.createdAt,
     updated_at |-> o.updatedAt, important |-> o.important,
     filename |-> o.filename,
     images |-> [k \in 1..Len(o.images) |-> ImageFromJson(o.images[k])],
     tags |-> Field(o, "tags", <<>>),
     links_to |-> Field(o, "linksTo", <<>>),
     is_daily |-> Field(o, "isDaily", FALSE),
     notebook_id |-> IF "notebookId" \in DOMAIN o
                     THEN OptFromJson(o.notebookId) ELSE None]

NotebookToJson(b) ==
    [id |-> b.id, name |-> b.name, archived |-> b.archived,
     createdAt |-> b.created_at]

NotebookFromJson(o) ==
    [id |-> o.id, name |-> o.name, archived |-> Field(o, "archived", FALSE),
     created_at |-> o.createdAt]

IndexToJson(index) ==
    [notes |-> [k \in 1..Len(index.notes) |-> NoteToJson(index.notes[k])],
     notebooks |-> [k \in 1..Len(index.notebooks) |->
                       NotebookToJson(index.notebooks[k])]]

IndexFromJson(o) ==
    [notes |-> [k \in 1..Len(o.notes) |-> NoteFromJson(o.notes[k])],
     notebooks |-> [k \in 1..Len(Field(o, "notebooks", <<>>)) |->
                       NotebookFromJson(o.notebooks[k])]]

\* The keys without a default: an object that lacks one does not deserialize.
ImageKeys == {"name", "path", "addedAt"}
NoteKeys ==
    {"id", "title", "createdAt", "updatedAt", "important", "filename", "images"}
NotebookKeys == {"id", "name", "createdAt"}

Deserializes(o) ==
    /\ "notes" \in DOMAIN o
    /\ \A k \in 1..Len(o.notes) :
          /\ NoteKeys \subseteq DOMAIN o.notes[k]
          /\ \A i \in 1..Len(o.notes[k].images) :
                ImageKeys \subseteq DOMAIN o.notes[k].images[i]
    /\ \A k \in 1..Len(Field(o, "notebooks", <<>>)) :
          NotebookKeys \subseteq DOMAIN o.notebooks[k]

(***************************************************************************)
(* The file system                                                         *)
(***************************************************************************)

\* The number of write calls one write_all of a serialized index takes.
NChunks == 2

\* serde_json::to_string_pretty(index), as the chunks write_all writes.
Serialize(index) ==
    [k \in 1..NChunks |-> [json |-> IndexToJson(index), part |-> k]]

\* A hole left by a write past the end of a truncated file.
Hole == [json |-> EmptyIndex, part |-> 0]

\* serde_json::from_str: the text parses only when it is the whole
\* serialization of one index.
ParseOk(content) ==
    /\ Len(content) = NChunks
    /\ \A k \in 1..NChunks : content[k].part = k /\ content[k].json = content[1].json
    /\ Deserializes(content[1].json)

Parsed(content) == IndexFromJson(content[1].json)

NoFile == [exists |-> FALSE, content |-> <<>>, durable |-> <<>>]

EmptyFs ==
    [ index    |-> NoFile,
      tmp      |-> NoFile,
      notes    |-> <<>>,
      versions |-> <<>>,
      images   |-> <<>> ]

\* A directory or folder as a function from names to contents.
Put(dir, name, value) ==
    [n \in DOMAIN dir \cup {name} |-> IF n = name THEN value ELSE dir[n]]

Remove(dir, name) == [n \in DOMAIN dir \ {name} |-> dir[n]]

\* File::create(temp_path): a new empty file, or the existing one truncated.
\* The part already on stable storage stays there until the next sync.
CreateTmp(fs) ==
    [fs EXCEPT !.tmp = [exists |-> TRUE, content |-> <<>>, durable |-> fs.tmp.durable]]

\* One write call through a descriptor whose file is now named `at`
\* ("tmp", "index", or "orphan" once the file has no name), at offset pos.
WriteAt(content, pos, chunk) ==
    LET padded == content \o [i \in 1..(pos - Len(content)) |-> Hole]
    IN  [i \in 1..(IF Len(padded) > pos + 1 THEN Len(padded) ELSE pos + 1) |->
            IF i = pos + 1 THEN chunk ELSE padded[i]]

WriteChunk(fs, at, pos, chunk) ==
    CASE at = "tmp"   -> [fs EXCEPT !.tmp.content = WriteAt(@, pos, chunk)]
      [] at = "index" -> [fs EXCEPT !.index.content = WriteAt(@, pos, chunk)]
      [] OTHER        -> fs

\* A sync that returns without having made anything durable.
SyncAll_skipped(fs, at) == fs

\* f.sync_all()
SyncAll(fs, at) ==
    CASE at = "tmp"   -> [fs EXCEPT !.tmp.durable = fs.tmp.content]
      [] at = "index" -> [fs EXCEPT !.index.durable = fs.index.content]
      [] OTHER        -> fs

\* fs::rename(temp_path, path): fails when the temporary path names no file.
RenameOk(fs) == fs.tmp.exists

RenameTmp(fs) == [fs EXCEPT !.index = fs.tmp, !.tmp = NoFile]

RECURSIVE WriteAll(_, _, _, _)
WriteAll(fs, at, chunks, pos) ==
    IF pos >= Len(chunks) THEN fs
    ELSE WriteAll(WriteChunk(fs, at, pos, chunks[pos + 1]), at, chunks, pos + 1)

\* write_index run from start to end by one caller.
write_index(fs, index) ==
    RenameTmp(SyncAll(WriteAll(CreateTmp(fs), "tmp", Serialize(index), 0), "tmp"))

\* A read_index that answers the default index for text that does not parse.
read_index_lenient(fs) ==
    IF fs.index.exists /\ ParseOk(fs.index.content)
    THEN [ok |-> TRUE, index |-> Parsed(fs.index.content)]
    ELSE [ok |-> TRUE, index |-> EmptyIndex]

\* read_index: Ok(default) without a file, Err on text that does not parse.
read_index(fs) ==
    IF ~fs.index.exists THEN [ok |-> TRUE, index |-> EmptyIndex]
    ELSE IF ParseOk(fs.index.content)
         THEN [ok |-> TRUE, index |-> Parsed(fs.index.content)]
         ELSE [ok |-> FALSE, index |-> EmptyIndex]

\* init_storage: the index file is written when it does not exist.
init_storage(fs) ==
    IF ~fs.index.exists THEN write_index(fs, EmptyIndex) ELSE fs

(***************************************************************************)
(* ContentStore and VersionVault                                           *)
(***************************************************************************)

\* Max number of version snapshots to keep per note.
MAX_VERSIONS_PER_NOTE == 30

body_exists(fs, note_id) == note_path(note_id) \in DOMAIN fs.notes

\* fs::read_to_string(note_path), or the empty text without a file.
read_body(fs, note_id) ==
    IF body_exists(fs, note_id) THEN fs.notes[note_path(note_id)] ELSE <<>>

\* fs::write(note_path(id), body)
write_body(fs, note_id, body) ==
    [fs EXCEPT !.notes = Put(@, note_path(note_id), body)]

\* fs::create_dir_all(v_dir), then fs::write(v_dir.join(version_filename)).
write_snapshot(fs, note_id, snapshot) ==
    LET dir == versions_dir(note_id)
        old == IF dir \in DOMAIN fs.versions THEN fs.versions[dir] ELSE <<>>
    IN  [fs EXCEPT !.versions =
            Put(@, dir, Put(old, version_filename(snapshot.saved_at), snapshot))]

\* File names compare as strings: by the instant, the suffix being the same.
FileNameLess(a, b) == a.t < b.t

\* A retention that sorts ascending and so removes the newest names.
PrunedNames_ascending(names) ==
    {f \in names :
        Cardinality({g \in names : FileNameLess(g, f)}) >= MAX_VERSIONS_PER_NOTE}

\* names.sort_by(|a, b| b.cmp(a)); names.into_iter().skip(MAX): the names
\* that have at least MAX greater names in the directory.
PrunedNames(names) ==
    {f \in names :
        Cardinality({g \in names : FileNameLess(f, g)}) >= MAX_VERSIONS_PER_NOTE}

\* A retention that keeps one name more than MAX_VERSIONS_PER_NOTE.
prune_versions_off_by_one(fs, note_id) ==
    LET dir == versions_dir(note_id)
    IN  IF dir \notin DOMAIN fs.versions THEN fs
        ELSE LET names == DOMAIN fs.versions[dir]
                 gone  == {f \in names :
                             Cardinality({g \in names : FileNameLess(f, g)})
                                 > MAX_VERSIONS_PER_NOTE}
             IN  [fs EXCEPT !.versions[dir] =
                     [f \in DOMAIN @ \ gone |-> @[f]]]

\* The retention loop of save_note: every name beyond the newest MAX is removed.
prune_versions(fs, note_id) ==
    LET dir == versions_dir(note_id)
    IN  IF dir \notin DOMAIN fs.versions THEN fs
        ELSE LET gone == PrunedNames(DOMAIN fs.versions[dir])
             IN  [fs EXCEPT !.versions[dir] =
                     [f \in DOMAIN @ \ gone |-> @[f]]]

\* The snapshot files of a note, as the set of their contents.
Snapshots(fs, note_id) ==
    LET dir == versions_dir(note_id)
    IN  IF dir \in DOMAIN fs.versions
        THEN {fs.versions[dir][f] : f \in DOMAIN fs.versions[dir]}
        ELSE {}

VersionCount(fs, dir) ==
    IF dir \in DOMAIN fs.versions THEN Cardinality(DOMAIN fs.versions[dir]) ELSE 0

(***************************************************************************)
(* Results                                                                 *)
(***************************************************************************)

NoMeta == NewNoteMeta(<<>>, <<>>, Rfc3339(0), <<>>, <<>>, FALSE)

\* Ok(meta) with the file system the call leaves behind.
Ok(fs, meta) == [fs |-> fs, ok |-> TRUE, err |-> "", meta |-> meta]

\* Err(message): the call returns before it changes anything more.
Err(fs, msg) == [fs |-> fs, ok |-> FALSE, err |-> msg, meta |-> NoMeta]

(***************************************************************************)
(* save_note                                                               *)
(***************************************************************************)

\* Lines 246-253: the union of body tags and title tags, sorted.
save_tags(title, body) ==
    SortStrings(SeqToSet(extract_tags_from_body(body))
                    \cup SeqToSet(extract_tags_from_title(title)))

\* Links resolved with no note excluded.
save_links_no_exclude(body, notes, note_id) ==
    extract_links_from_body(body, notes, <<>>)

\* Line 254: the links of the body, the note itself excluded.
save_links(body, notes, note_id) ==
    extract_links_from_body(body, notes, IF note_id.some THEN note_id.v ELSE <<>>)

\* A snapshot stamped with the creation time instead of the last update.
prior_snapshot_created_at(fs, n) ==
    [saved_at |-> n.created_at, title |-> n.title, body |-> read_body(fs, n.id)]

\* The snapshot save_note takes of an existing note before overwriting it.
prior_snapshot(fs, n) ==
    [saved_at |-> n.updated_at, title |-> n.title, body |-> read_body(fs, n.id)]

\* An update that keeps the tags the note had next to the new ones.
updated_meta_keep_tags(n, title, now, tags, links_to) ==
    [n EXCEPT !.title = title, !.updated_at = now,
              !.tags = SortStrings(SeqToSet(n.tags) \cup SeqToSet(tags)),
              !.links_to = links_to]

\* Lines 292-295: the fields a save replaces on an existing note.
updated_meta(n, title, now, tags, links_to) ==
    [n EXCEPT !.title = title, !.updated_at = now,
              !.tags = tags, !.links_to = links_to]

\* A save that never finds the note it is given.
save_position_never(notes, note_id) == 0

\* Line 258: the position of the note with the given id (0: None).
save_position(notes, note_id) ==
    IF note_id.some THEN Position(notes, note_id.v) ELSE 0

\* What save_note decides before it touches the file system (lines 242-336):
\* the error it returns if any, the note's id, its position in the loaded
\* index (0: a new note) and the index it is going to store.
save_plan(fs, now, uuid, note_id, title, body) ==
    LET loaded   == read_index(fs)
        index    == loaded.index
        tags     == save_tags(title, body)
        links_to == save_links(body, index.notes, note_id)
        id       == IF note_id.some THEN note_id.v ELSE uuid
        pos      == save_position(index.notes, note_id)
        meta     == IF pos > 0
                    THEN updated_meta(index.notes[pos], title, now, tags, links_to)
                    ELSE NewNoteMeta(id, title, now, tags, links_to, FALSE)
    IN  [ err   |-> IF ~loaded.ok THEN "index does not parse"
                    ELSE IF links_panic(body) THEN "panic"
                    ELSE IF note_id.some /\ ~validate_note_id(id) THEN "Invalid note id"
                    ELSE "",
          id    |-> id,
          pos   |-> pos,
          prior |-> IF pos > 0 THEN index.notes[pos] ELSE NoMeta,
          meta  |-> meta,
          index |-> IF pos > 0 THEN [index EXCEPT !.notes[pos] = meta]
                    ELSE [index EXCEPT !.notes = Append(@, meta)] ]

\* A save that never takes a snapshot.
takes_snapshot_never(fs, plan) == FALSE

\* Whether the save takes a snapshot: an existing note whose body file exists.
takes_snapshot(fs, plan) == plan.pos > 0 /\ body_exists(fs, plan.id)

\* Lines 262-291: the snapshot is written, then the directory is pruned.
save_versions(fs, plan) ==
    IF takes_snapshot(fs, plan)
    THEN prune_versions(write_snapshot(fs, plan.id, prior_snapshot(fs, plan.prior)),
                        plan.id)
    ELSE fs

\* save_note as one call.
save_note(fs, now, uuid, note_id, title, body) ==
    LET plan == save_plan(fs, now, uuid, note_id, title, body)
    IN  IF plan.err # "" THEN Err(fs, plan.err)
        ELSE Ok(write_index(write_body(save_versions(fs, plan), plan.id, body),
                            plan.index),
                plan.meta)

(***************************************************************************)
(* The other storage operations                                            *)
(***************************************************************************)

NotFound == "Note not found"

\* read_note: the metadata and the body, or an error.
read_note(fs, note_id) ==
    LET loaded == read_index(fs)
        pos    == Position(loaded.index.notes, note_id)
    IN  IF ~validate_note_id(note_id) THEN [ok |-> FALSE, err |-> "Invalid note id",
                                            meta |-> NoMeta, body |-> <<>>]
        ELSE IF ~loaded.ok THEN [ok |-> FALSE, err |-> "index does not parse",
                                 meta |-> NoMeta, body |-> <<>>]
        ELSE IF pos = 0 THEN [ok |-> FALSE, err |-> NotFound,
                              meta |-> NoMeta, body |-> <<>>]
        ELSE [ok |-> TRUE, err |-> "", meta |-> loaded.index.notes[pos],
              body |-> read_body(fs, note_id)]

\* The shape shared by toggle_important, update_note_title and
\* remove_tag_from_note: validate, load, find, change the note, store.
mutate_note(fs, note_id, Change(_)) ==
    LET loaded == read_index(fs)
        pos    == Position(loaded.index.notes, note_id)
        meta   == Change(loaded.index.notes[pos])
    IN  IF ~validate_note_id(note_id) THEN Err(fs, "Invalid note id")
        ELSE IF ~loaded.ok THEN Err(fs, "index does not parse")
        ELSE IF pos = 0 THEN Err(fs, NotFound)
        ELSE Ok(write_index(fs, [loaded.index EXCEPT !.notes[pos] = meta]), meta)

toggle_important(fs, now, note_id, important) ==
    LET Change(n) == [n EXCEPT !.important = important, !.updated_at = now]
    IN  mutate_note(fs, note_id, Change)

update_note_title(fs, now, note_id, new_title) ==
    LET Change(n) == [n EXCEPT !.title = new_title, !.updated_at = now]
    IN  mutate_note(fs, note_id, Change)

remove_tag_from_note(fs, now, note_id, tag) ==
    LET Keep(t) == t # tag
        Change(n) == [n EXCEPT !.tags = SelectSeq(@, Keep), !.updated_at = now]
    IN  mutate_note(fs, note_id, Change)

\* add_tag_to_notes: the trimmed tag is pushed at the end of the tag list of
\* every listed note that does not have it; the index is stored in any case.
add_tag_to_notes(fs, now, note_ids, tag) ==
    LET loaded  == read_index(fs)
        trimmed == Trim(tag)
        Tagged(n) == IF Contains(note_ids, n.id) /\ ~Contains(n.tags, trimmed)
                     THEN [n EXCEPT !.tags = Append(@, trimmed), !.updated_at = now]
                     ELSE n
        notes   == loaded.index.notes
    IN  IF note_ids = <<>> \/ trimmed = <<>> THEN Ok(fs, NoMeta)
        ELSE IF ~loaded.ok THEN Err(fs, "index does not parse")
        ELSE Ok(write_index(fs, [loaded.index EXCEPT
                    !.notes = [i \in 1..Len(notes) |-> Tagged(notes[i])]]), NoMeta)

\* fs::remove_file / fs::remove_dir_all, their failures ignored.
remove_body(fs, note_id) == [fs EXCEPT !.notes = Remove(@, note_path(note_id))]

remove_images_dir(fs, note_id) == [fs EXCEPT !.images = Remove(@, images_dir(note_id))]

remove_versions_dir(fs, note_id) ==
    [fs EXCEPT !.versions = Remove(@, versions_dir(note_id))]

\* A clean-up that leaves the version directory behind.
delete_files_keep_versions(fs, note_id) ==
    remove_images_dir(remove_body(fs, note_id), note_id)

\* The clean-up of delete_note after the index is stored (lines 487-492).
delete_files(fs, note_id) ==
    remove_versions_dir(remove_images_dir(remove_body(fs, note_id), note_id), note_id)

delete_note(fs, note_id) ==
    LET loaded == read_index(fs)
        pos    == Position(loaded.index.notes, note_id)
    IN  IF ~validate_note_id(note_id) THEN Err(fs, "Invalid note id")
        ELSE IF ~loaded.ok THEN Err(fs, "index does not parse")
        ELSE IF pos = 0 THEN Err(fs, NotFound)
        ELSE Ok(delete_files(
                    write_index(fs, [loaded.index EXCEPT !.notes = RemoveAt(@, pos)]),
                    note_id),
                NoMeta)

\* Lines 600-607: the files of every id given are removed.
RECURSIVE DeleteAllFiles(_, _)
DeleteAllFiles(fs, ids) ==
    IF ids = <<>> THEN fs
    ELSE DeleteAllFiles(delete_files(fs, ids[1]), Tail(ids))

\* A batch delete that removes the files before it validates the ids.
batch_delete_notes_files_first(fs, note_ids) ==
    LET fs1    == DeleteAllFiles(fs, note_ids)
        loaded == read_index(fs1)
        Kept(n) == ~Contains(note_ids, n.id)
    IN  IF note_ids = <<>> THEN Ok(fs, NoMeta)
        ELSE IF \E i \in 1..Len(note_ids) : ~validate_note_id(note_ids[i])
        THEN Err(fs1, "Invalid note id")
        ELSE IF ~loaded.ok THEN Err(fs1, "index does not parse")
        ELSE Ok(write_index(fs1, [loaded.index EXCEPT
                                     !.notes = SelectSeq(@, Kept)]),
                NoMeta)

\* batch_delete_notes: every id is validated, the notes with one of the
\* ids leave the index, and the files of every id are removed.
batch_delete_notes(fs, note_ids) ==
    LET loaded == read_index(fs)
        Kept(n) == ~Contains(note_ids, n.id)
    IN  IF note_ids = <<>> THEN Ok(fs, NoMeta)
        ELSE IF \E i \in 1..Len(note_ids) : ~validate_note_id(note_ids[i])
        THEN Err(fs, "Invalid note id")
        ELSE IF ~loaded.ok THEN Err(fs, "index does not parse")
        ELSE Ok(DeleteAllFiles(
                    write_index(fs, [loaded.index EXCEPT
                                        !.notes = SelectSeq(@, Kept)]),
                    note_ids),
                NoMeta)

\* Utc::now().format("%Y-%m-%d"): the day of an instant, as text.
TicksPerDay == 4

DateDigit == <<"0", "1", "2", "3", "4", "5", "6", "7", "8", "9">>

TwoDigits(n) == <<DateDigit[(n \div 10) + 1], DateDigit[(n % 10) + 1]>>

\* now.format("%Y-%m-%d"): the clock starts on 2024-01-01; the days of
\* January and February 2024.
FormatDate(now) ==
    LET day == now.t \div TicksPerDay
    IN  <<"2", "0", "2", "4", "-">>
        \o (IF day < 31 THEN <<"0", "1", "-">> \o TwoDigits(day + 1)
                        ELSE <<"0", "2", "-">> \o TwoDigits(day - 30))

DailyBody == <<"#", " ", "d", "a", "i", "l", "y", "\n">>

DailyTag == <<"d", "a", "i", "l", "y">>

\* The existing daily note of today, as a position in the index (0: none).
daily_position(notes, today) ==
    LET hits == {i \in 1..Len(notes) : notes[i].is_daily /\ notes[i].title = today}
    IN  IF hits = {} THEN 0 ELSE CHOOSE i \in hits : \A j \in hits : i <= j

\* The index get_or_create_daily_note stores when today has no daily note.
daily_meta(now, uuid) ==
    NewNoteMeta(uuid, FormatDate(now), now, <<DailyTag>>, <<>>, TRUE)

get_or_create_daily_note(fs, now, uuid) ==
    LET loaded == read_index(fs)
        pos    == daily_position(loaded.index.notes, FormatDate(now))
        meta   == daily_meta(now, uuid)
    IN  IF ~loaded.ok THEN Err(fs, "index does not parse")
        ELSE IF pos > 0 THEN Ok(fs, loaded.index.notes[pos])
        ELSE Ok(write_body(
                    write_index(fs, [loaded.index EXCEPT !.notes = Append(@, meta)]),
                    uuid, DailyBody),
                meta)

\* get_or_create_daily_note stopped by a crash of the process after the
\* index is stored and before the body file is written (lines 920-922).
daily_note_interrupted(fs, now, uuid) ==
    LET loaded == read_index(fs)
        meta   == daily_meta(now, uuid)
    IN  write_index(fs, [loaded.index EXCEPT !.notes = Append(@, meta)])

\* get_note_version: the snapshot stored under version_filename(saved_at).
get_note_version(fs, note_id, saved_at) ==
    LET dir  == versions_dir(note_id)
        name == version_filename(saved_at)
        NoSnapshot == [saved_at |-> Rfc3339(0), title |-> <<>>, body |-> <<>>]
    IN  IF ~validate_note_id(note_id)
        THEN [ok |-> FALSE, err |-> "Invalid note id", snapshot |-> NoSnapshot]
        ELSE IF dir \notin DOMAIN fs.versions \/ name \notin DOMAIN fs.versions[dir]
        THEN [ok |-> FALSE, err |-> "Version not found", snapshot |-> NoSnapshot]
        ELSE [ok |-> TRUE, err |-> "", snapshot |-> fs.versions[dir][name]]

\* A restore that overwrites title and body without going through save_note.
restore_note_version_direct(fs, now, uuid, note_id, saved_at) ==
    LET got == get_note_version(fs, note_id, saved_at)
        Change(n) == [n EXCEPT !.title = got.snapshot.title, !.updated_at = now]
    IN  IF ~got.ok THEN Err(fs, got.err)
        ELSE mutate_note(write_body(fs, note_id, got.snapshot.body), note_id, Change)

\* restore_note_version: the snapshot is fetched and saved as a normal save.
restore_note_version(fs, now, uuid, note_id, saved_at) ==
    LET got == get_note_version(fs, note_id, saved_at)
    IN  IF ~got.ok THEN Err(fs, got.err)
        ELSE save_note(fs, now, uuid, Some(note_id), got.snapshot.title,
                       got.snapshot.body)

\* The characters that take more than one byte in UTF-8: e with acute
\* accent (two bytes) and the horizontal ellipsis (three bytes).
EAcute == "U+00E9"

Ellipsis == "U+2026"

\* char::len_utf8
len_utf8(c) == IF c = EAcute THEN 2 ELSE IF c = Ellipsis THEN 3 ELSE 1

\* str::len: the length in bytes.
ByteLen(s) ==
    Len(s) + Cardinality({i \in 1..Len(s) : len_utf8(s[i]) = 2})
           + 2 * Cardinality({i \in 1..Len(s) : len_utf8(s[i]) = 3})

\* str::is_char_boundary(n), with the number of characters before byte n;
\* -1 when byte n falls inside a character or past the end.
CharsAtByte(s, n) ==
    LET cuts == {k \in 0..Len(s) : ByteLen(SubSeq(s, 1, k)) = n}
    IN  IF cuts = {} THEN -1 ELSE CHOOSE k \in cuts : TRUE

\* let preview_len = 150;
PREVIEW_LEN == 150

\* Lines 1351-1356: the body when it has at most 150 bytes, else the slice
\* &body[..150] and an ellipsis; the slice panics inside a character.
body_preview(body) ==
    IF ByteLen(body) <= PREVIEW_LEN THEN [panic |-> FALSE, text |-> body]
    ELSE LET k == CharsAtByte(body, PREVIEW_LEN)
         IN  IF k < 0 THEN [panic |-> TRUE, text |-> <<>>]
             ELSE [panic |-> FALSE, text |-> Append(SubSeq(body, 1, k), Ellipsis)]

\* NoteVersionItem
VersionItem(snapshot) ==
    [saved_at |-> snapshot.saved_at, title |-> snapshot.title,
     body_preview |-> body_preview(snapshot.body).text]

\* items.sort_by(|a, b| b.saved_at.cmp(&a.saved_at)) on items with different
\* saved_at: the item at place i has i - 1 items after it in time.
NewestFirst(items) ==
    [i \in 1..Cardinality(items) |->
        CHOOSE x \in items :
            Cardinality({y \in items : TimeLess(x.saved_at, y.saved_at)}) = i - 1]

\* list_note_versions: one item per snapshot file, newest first.
list_note_versions(fs, note_id) ==
    LET snaps == Snapshots(fs, note_id)
    IN  IF ~validate_note_id(note_id)
        THEN [ok |-> FALSE, err |-> "Invalid note id", items |-> <<>>]
        ELSE IF \E snap \in snaps : body_preview(snap.body).panic
        THEN [ok |-> FALSE, err |-> "panic", items |-> <<>>]
        ELSE [ok |-> TRUE, err |-> "",
              items |-> NewestFirst({VersionItem(snap) : snap \in snaps})]

\* validate_notebook_id: TRUE when the id is accepted.
validate_notebook_id(id) ==
    /\ id # <<>>
    /\ ~Contains(id, "/")
    /\ ~Contains(id, "\\")
    /\ id # <<".">>
    /\ id # <<".", ".">>
    /\ \A i \in 1..Len(id) : ~is_control(id[i])

\* A move that leaves updated_at as it was.
move_note_to_notebook_no_touch(fs, now, note_id, notebook_id) ==
    LET loaded == read_index(fs)
        pos    == Position(loaded.index.notes, note_id)
        meta   == [loaded.index.notes[pos] EXCEPT !.notebook_id = notebook_id]
    IN  IF ~validate_note_id(note_id) \/ ~loaded.ok \/ pos = 0
        THEN Err(fs, NotFound)
        ELSE Ok(write_index(fs, [loaded.index EXCEPT !.notes[pos] = meta]), meta)

\* move_note_to_notebook: the notebook must exist, None takes the note out.
move_note_to_notebook(fs, now, note_id, notebook_id) ==
    LET loaded == read_index(fs)
        pos    == Position(loaded.index.notes, note_id)
        meta   == [loaded.index.notes[pos] EXCEPT
                      !.notebook_id = notebook_id, !.updated_at = now]
    IN  IF ~validate_note_id(note_id) THEN Err(fs, "Invalid note id")
        ELSE IF notebook_id.some /\ ~validate_notebook_id(notebook_id.v)
        THEN Err(fs, "Invalid notebook id")
        ELSE IF ~loaded.ok THEN Err(fs, "index does not parse")
        ELSE IF notebook_id.some
                /\ \A k \in 1..Len(loaded.index.notebooks) :
                      loaded.index.notebooks[k].id # notebook_id.v
        THEN Err(fs, "Notebook not found")
        ELSE IF pos = 0 THEN Err(fs, NotFound)
        ELSE Ok(write_index(fs, [loaded.index EXCEPT !.notes[pos] = meta]), meta)

\* create_notebook: a notebook with a fresh id is appended.
create_notebook(fs, now, uuid, name) ==
    LET loaded   == read_index(fs)
        notebook == [id |-> uuid, name |-> Trim(name), archived |-> FALSE,
                     created_at |-> now]
    IN  IF Trim(name) = <<>> THEN Err(fs, "Notebook name cannot be empty")
        ELSE IF ~loaded.ok THEN Err(fs, "index does not parse")
        ELSE IF ~validate_notebook_id(uuid) THEN Err(fs, "Invalid notebook id")
        ELSE Ok(write_index(fs, [loaded.index EXCEPT
                    !.notebooks = Append(@, notebook)]), NoMeta)

\* attach_image_from_clipboard, for image data that decodes and is not
\* empty: the image directory is made and the file written before the note
\* is looked up.
StoredName(now, stem) == [millis |-> now.t, stem |-> sanitize_filename(stem)]

attach_image_from_clipboard(fs, now, note_id, stem) ==
    LET dir    == images_dir(note_id)
        stored == StoredName(now, stem)
        old    == IF dir \in DOMAIN fs.images THEN fs.images[dir] ELSE {}
        fs1    == [fs EXCEPT !.images = Put(@, dir, old \cup {stored})]
        image  == [name |-> stem, path |-> [dir |-> note_id, file |-> stored],
                   added_at |-> now, size |-> SomeSize(1)]
        loaded == read_index(fs1)
        pos    == Position(loaded.index.notes, note_id)
        meta   == [loaded.index.notes[pos] EXCEPT
                      !.images = Append(@, image), !.updated_at = now]
    IN  IF ~validate_note_id(note_id) THEN Err(fs, "Invalid note id")
        ELSE IF ~loaded.ok THEN Err(fs1, "index does not parse")
        ELSE IF pos = 0 THEN Err(fs1, NotFound)
        ELSE Ok(write_index(fs1, [loaded.index EXCEPT !.notes[pos] = meta]), meta)

\* A path relative to the storage root, by its components: the top
\* directory, the directory below it where there is one, and the file; with
\* whether the text holds ".." and whether it starts with '/'.
RelPath(top, dir, file) ==
    [dotdot |-> FALSE, absolute |-> FALSE, top |-> top, dir |-> dir, file |-> file]

\* "meta/index.json"
IndexPath == RelPath("meta", <<>>, "index.json")

\* "notes/<file>"
BodyPath(file) == RelPath("notes", <<>>, file)

\* "versions/<dir>/<file>"
VersionPath(dir, file) == RelPath("versions", dir, file)

\* format!("images/{}/{}", note_id, stored_name): the path kept in ImageRef.
ImagePath(path) == RelPath("images", path.dir, path.file)

\* "../<file>" and "/<file>"
ParentPath == [RelPath("notes", <<>>, <<>>) EXCEPT !.dotdot = TRUE]

AbsolutePath == [RelPath("notes", <<>>, <<>>) EXCEPT !.absolute = TRUE]

\* img.path == relative_path
SamePath(path, relative_path) ==
    /\ relative_path.top = "images"
    /\ relative_path.dir = path.dir
    /\ relative_path.file = path.file

\* full.exists(), for root.join(relative_path)
FileExistsAt(fs, relative_path) ==
    CASE relative_path.top = "meta" -> fs.index.exists
      [] relative_path.top = "notes" -> relative_path.file \in DOMAIN fs.notes
      [] relative_path.top = "versions" ->
            /\ relative_path.dir \in DOMAIN fs.versions
            /\ relative_path.file \in DOMAIN fs.versions[relative_path.dir]
      [] relative_path.top = "images" ->
            /\ relative_path.dir \in DOMAIN fs.images
            /\ relative_path.file \in fs.images[relative_path.dir]
      [] OTHER -> FALSE

\* fs::remove_file(root.join(relative_path))
RemoveFileAt(fs, relative_path) ==
    CASE relative_path.top = "meta" -> [fs EXCEPT !.index = NoFile]
      [] relative_path.top = "notes" ->
            [fs EXCEPT !.notes = Remove(@, relative_path.file)]
      [] relative_path.top = "versions" ->
            [fs EXCEPT !.versions[relative_path.dir] = Remove(@, relative_path.file)]
      [] relative_path.top = "images" ->
            [fs EXCEPT !.images[relative_path.dir] = @ \ {relative_path.file}]
      [] OTHER -> fs

\* remove_attachment: the file at the path is removed first; then the note
\* is looked up and the path taken off its images list.
remove_attachment(fs, now, note_id, relative_path) ==
    LET fs1    == IF FileExistsAt(fs, relative_path)
                  THEN RemoveFileAt(fs, relative_path) ELSE fs
        loaded == read_index(fs1)
        pos    == Position(loaded.index.notes, note_id)
        Keep(img) == ~SamePath(img.path, relative_path)
        meta   == [loaded.index.notes[pos] EXCEPT
                      !.images = SelectSeq(@, Keep), !.updated_at = now]
    IN  IF ~validate_note_id(note_id) THEN Err(fs, "Invalid note id")
        ELSE IF relative_path.dotdot \/ relative_path.absolute
        THEN Err(fs, "Invalid path")
        ELSE IF ~loaded.ok THEN Err(fs1, "index does not parse")
        ELSE IF pos = 0 THEN Err(fs1, NotFound)
        ELSE Ok(write_index(fs1, [loaded.index EXCEPT !.notes[pos] = meta]), meta)

CopySuffix == <<" ", "(", "c", "o", "p", "y", ")">>

\* The second half of duplicate_note (lines 639-670): the image files are
\* copied and the copies are recorded on the new note.
duplicate_images(fs, now2, source, new_id) ==
    LET src    == images_dir(source.id)
        dest   == images_dir(new_id)
        old    == IF dest \in DOMAIN fs.images THEN fs.images[dest] ELSE {}
        fs1    == [fs EXCEPT !.images = Put(@, dest, old \cup fs.images[src])]
        loaded == read_index(fs1)
        pos    == Position(loaded.index.notes, new_id)
        copies == [i \in 1..Len(source.images) |->
                     [source.images[i] EXCEPT !.path.dir = new_id, !.added_at = now2]]
        meta   == [loaded.index.notes[pos] EXCEPT
                      !.images = @ \o copies, !.updated_at = now2]
    IN  IF source.images = <<>> \/ src \notin DOMAIN fs.images THEN fs
        ELSE write_index(fs1, [loaded.index EXCEPT !.notes[pos] = meta])

\* The value of F at x, with x evaluated once before F is applied.
Bind(x, F(_)) == CHOOSE r \in {F(v) : v \in {x}} : TRUE

\* duplicate_note: read, save as a new note titled "<title> (copy)", copy
\* the images, read the new note back.
duplicate_note(fs, now, now2, uuid, note_id) ==
    LET ReadBack(fs2, id) ==
            LET Result(back) == IF back.ok THEN Ok(fs2, back.meta)
                                ELSE Err(fs2, back.err)
            IN  Bind(read_note(fs2, id), Result)
        AfterSave(content, saved) ==
            LET Result(fs2) == ReadBack(fs2, saved.meta.id)
            IN  IF ~saved.ok THEN Err(saved.fs, saved.err)
                ELSE Bind(duplicate_images(saved.fs, now2, content.meta, saved.meta.id),
                          Result)
        AfterRead(content) ==
            LET Result(saved) == AfterSave(content, saved)
            IN  IF ~content.ok THEN Err(fs, content.err)
                ELSE Bind(save_note(fs, now, uuid, None,
                                    Trim(content.meta.title) \o CopySuffix,
                                    content.body),
                          Result)
    IN  Bind(read_note(fs, note_id), AfterRead)

\* to_merge.sort_by(|a, b| a.0.cmp(&b.0)): a stable sort by updated_at.
RECURSIVE InsertByTime(_, _)
InsertByTime(sorted, x) ==
    IF sorted = <<>> THEN <<x>>
    ELSE IF TimeLess(x.updated_at, sorted[1].updated_at) THEN <<x>> \o sorted
    ELSE <<sorted[1]>> \o InsertByTime(Tail(sorted), x)

RECURSIVE SortByTime(_)
SortByTime(items) ==
    IF items = <<>> THEN <<>>
    ELSE InsertByTime(SortByTime(SubSeq(items, 1, Len(items) - 1)), items[Len(items)])

\* A section without its "## title" header.
MergeSection_no_header(item) == item.body \o <<"\n", "\n">>

\* format!("## {}\n\n{}\n\n", title, body)
MergeSection(item) ==
    <<"#", "#", " ">> \o item.title \o <<"\n", "\n">> \o item.body \o <<"\n", "\n">>

RECURSIVE Concat(_)
Concat(parts) == IF parts = <<>> THEN <<>> ELSE parts[1] \o Concat(Tail(parts))

RECURSIVE RemoveBodiesAndImages(_, _)
RemoveBodiesAndImages(fs, ids) ==
    IF ids = <<>> THEN fs
    ELSE RemoveBodiesAndImages(remove_images_dir(remove_body(fs, ids[1]), ids[1]),
                               Tail(ids))

\* merge_notes for a list of two or more ids.
merge_many(fs, now, note_ids) ==
    LET loaded  == read_index(fs)
        notes   == loaded.index.notes
        missing == \E i \in 1..Len(note_ids) : Position(notes, note_ids[i]) = 0
        items   == [i \in 1..Len(note_ids) |->
                      [updated_at |-> notes[Position(notes, note_ids[i])].updated_at,
                       title      |-> notes[Position(notes, note_ids[i])].title,
                       body       |-> read_body(fs, note_ids[i])]]
        sorted  == SortByTime(items)
        merged_body == Trim(Concat([i \in 1..Len(sorted) |-> MergeSection(sorted[i])]))
        keep_id == note_ids[1]
        removed == Tail(note_ids)
        fs1     == write_body(fs, keep_id, merged_body)
        pos     == Position(notes, keep_id)
        meta    == [notes[pos] EXCEPT !.title = sorted[1].title, !.updated_at = now]
        Kept(n) == ~Contains(removed, n.id)
        index1  == [loaded.index EXCEPT
                      !.notes = SelectSeq([notes EXCEPT ![pos] = meta], Kept)]
    IN  IF ~loaded.ok THEN Err(fs, "index does not parse")
        ELSE IF missing THEN Err(fs, NotFound)
        ELSE Ok(RemoveBodiesAndImages(write_index(fs1, index1), removed), meta)

merge_notes(fs, now, note_ids) ==
    IF note_ids = <<>> THEN Err(fs, "No notes to merge")
    ELSE IF Len(note_ids) = 1
         THEN LET loaded == read_index(fs)
                  pos    == Position(loaded.index.notes, note_ids[1])
              IN  IF ~loaded.ok THEN Err(fs, "index does not parse")
                  ELSE IF pos = 0 THEN Err(fs, NotFound)
                  ELSE Ok(fs, loaded.index.notes[pos])
         ELSE merge_many(fs, now, note_ids)

(***************************************************************************)
(* QueryEngine: search_notes                                               *)
(***************************************************************************)

StartsWith(s, prefix) ==
    Len(s) >= Len(prefix) /\ SubSeq(s, 1, Len(prefix)) = prefix

\* str::contains
ContainsText(s, term) ==
    \E i \in 0..(Len(s) - Len(term)) : SubSeq(s, i + 1, i + Len(term)) = term

\* body.lines()
RECURSIVE Lines(_, _)
Lines(s, cur) ==
    IF s = <<>> THEN (IF cur = <<>> THEN <<>> ELSE <<cur>>)
    ELSE IF s[1] = "\n" THEN <<cur>> \o Lines(Tail(s), <<>>)
    ELSE Lines(Tail(s), Append(cur, s[1]))

UncheckedMarks == {<<"-", " ", "[", " ", "]">>, <<"*", " ", "[", " ", "]">>}

CheckedMarks ==
    {<<"-", " ", "[", "x", "]">>, <<"-", " ", "[", "X", "]">>,
     <<"*", " ", "[", "x", "]">>, <<"*", " ", "[", "X", "]">>}

\* body_has_task_lines: (has_unchecked, has_checked)
body_has_task_lines(body) ==
    LET lines == Lines(body, <<>>)
        Has(marks) == \E i \in 1..Len(lines) :
                          \E m \in marks : StartsWith(Trim(lines[i]), m)
    IN  [has_unchecked |-> Has(UncheckedMarks), has_checked |-> Has(CheckedMarks)]

\* The operator words of the query language (lines 1034-1053).
TagPrefix == <<"t", "a", "g", ":">>

OpStarred == <<"i", "s", ":", "s", "t", "a", "r", "r", "e", "d">>

OpToday == <<"d", "a", "t", "e", ":", "t", "o", "d", "a", "y">>

OpWeek == <<"d", "a", "t", "e", ":", "w", "e", "e", "k">>

OpMonth == <<"d", "a", "t", "e", ":", "m", "o", "n", "t", "h">>

OpAttachments ==
    <<"h", "a", "s", ":", "a", "t", "t", "a", "c", "h", "m", "e", "n", "t", "s">>

OpTasks == <<"h", "a", "s", ":", "t", "a", "s", "k", "s">>

OpCompleted == <<"i", "s", ":", "c", "o", "m", "p", "l", "e", "t", "e", "d">>

OpUncompleted ==
    <<"i", "s", ":", "u", "n", "c", "o", "m", "p", "l", "e", "t", "e", "d">>

\* Lines 1025-1031: no filter set.
NoFilters ==
    [ tag_filter |-> None, starred_only |-> FALSE, date_filter |-> "none",
      has_attachments_only |-> FALSE, has_tasks_only |-> FALSE,
      task_filter |-> "none", text_parts |-> <<>> ]

\* Lines 1033-1057: what one part of the query does to the filters.
classify_part(f, part) ==
    LET part_lower == to_lowercase(part)
        tag        == Trim(SubSeq(part_lower, 5, Len(part_lower)))
    IN  IF StartsWith(part_lower, TagPrefix)
        THEN (IF tag # <<>> THEN [f EXCEPT !.tag_filter = Some(tag)] ELSE f)
        ELSE IF part_lower = OpStarred THEN [f EXCEPT !.starred_only = TRUE]
        ELSE IF part_lower = OpToday THEN [f EXCEPT !.date_filter = "today"]
        ELSE IF part_lower = OpWeek THEN [f EXCEPT !.date_filter = "week"]
        ELSE IF part_lower = OpMonth THEN [f EXCEPT !.date_filter = "month"]
        ELSE IF part_lower = OpAttachments THEN [f EXCEPT !.has_attachments_only = TRUE]
        ELSE IF part_lower = OpTasks THEN [f EXCEPT !.has_tasks_only = TRUE]
        ELSE IF part_lower = OpCompleted THEN [f EXCEPT !.task_filter = "completed"]
        ELSE IF part_lower = OpUncompleted THEN [f EXCEPT !.task_filter = "uncompleted"]
        ELSE [f EXCEPT !.text_parts = Append(@, part_lower)]

\* The loop of lines 1032-1058 over q.split_whitespace().
RECURSIVE parse_query(_, _)
parse_query(f, parts) ==
    IF parts = <<>> THEN f
    ELSE parse_query(classify_part(f, parts[1]), Tail(parts))

\* now - chrono::Duration::days(n)
DaysBefore(now, n) == [now EXCEPT !.t = @ - n * TicksPerDay]

\* Lines 1068-1079: the date test; note_date is the first ten characters of
\* updated_at, compared as a string.
date_ok(kind, note_date, now) ==
    CASE kind = "today" -> note_date = FormatDate(now)
      [] kind = "week"  -> ~StrLess(note_date, FormatDate(DaysBefore(now, 7)))
      [] kind = "month" -> ~StrLess(note_date, FormatDate(DaysBefore(now, 30)))
      [] OTHER          -> TRUE

\* Lines 1083-1098: the tests on the task lines of the body.
tasks_ok(f, body) ==
    LET t == body_has_task_lines(body)
    IN  /\ f.has_tasks_only => (t.has_unchecked \/ t.has_checked)
        /\ f.task_filter = "completed" => t.has_checked
        /\ f.task_filter = "uncompleted" => t.has_unchecked

\* A text test that wants every term in the title and in the body.
text_ok_title_and_body(f, n, body) ==
    \A i \in 1..Len(f.text_parts) :
        /\ ContainsText(to_lowercase(n.title), f.text_parts[i])
        /\ ContainsText(to_lowercase(body), f.text_parts[i])

\* Lines 1099-1105: every term is in the lower-cased title or body.
text_ok(f, n, body) ==
    \A i \in 1..Len(f.text_parts) :
        \/ ContainsText(to_lowercase(n.title), f.text_parts[i])
        \/ ContainsText(to_lowercase(body), f.text_parts[i])

\* The closure of the filter at lines 1059-1106.
note_passes(fs, f, n, now) ==
    /\ f.tag_filter.some =>
          \E i \in 1..Len(n.tags) : to_lowercase(n.tags[i]) = f.tag_filter.v
    /\ f.starred_only => n.important
    /\ date_ok(f.date_filter, FormatDate(n.updated_at), now)
    /\ f.has_attachments_only => n.images # <<>>
    /\ tasks_ok(f, read_body(fs, n.id))
    /\ text_ok(f, n, read_body(fs, n.id))

\* out.sort_by(|a, b| b.updated_at.cmp(&a.updated_at)): a stable sort.
RECURSIVE InsertDescending(_, _)
InsertDescending(sorted, x) ==
    IF sorted = <<>> THEN <<x>>
    ELSE IF TimeLess(sorted[1].updated_at, x.updated_at) THEN <<x>> \o sorted
    ELSE <<sorted[1]>> \o InsertDescending(Tail(sorted), x)

\* A sort that leaves the list as it is.
SortDescending_skipped(items) == items

RECURSIVE SortDescending(_)
SortDescending(items) ==
    IF items = <<>> THEN <<>>
    ELSE InsertDescending(SortDescending(SubSeq(items, 1, Len(items) - 1)),
                          items[Len(items)])

\* A search that filters and sorts on a blank query as on any other.
search_notes_no_early_return(fs, now, query) ==
    LET loaded == read_index(fs)
        f      == parse_query(NoFilters, SplitWhitespace(Trim(query), <<>>))
        Keep(n) == note_passes(fs, f, n, now)
    IN  IF ~loaded.ok THEN [ok |-> FALSE, out |-> <<>>]
        ELSE [ok |-> TRUE, out |-> SortDescending(SelectSeq(loaded.index.notes, Keep))]

\* search_notes: the notes found, or the error of read_index.
search_notes(fs, now, query) ==
    LET loaded == read_index(fs)
        q      == Trim(query)
        f      == parse_query(NoFilters, SplitWhitespace(q, <<>>))
        Keep(n) == note_passes(fs, f, n, now)
    IN  IF ~loaded.ok THEN [ok |-> FALSE, out |-> <<>>]
        ELSE IF q = <<>> THEN [ok |-> TRUE, out |-> loaded.index.notes]
        ELSE [ok |-> TRUE, out |-> SortDescending(SelectSeq(loaded.index.notes, Keep))]

(***************************************************************************)
(* State                                                                   *)
(***************************************************************************)

VARIABLES
    fs,      \* the storage root on disk
    clock,   \* the last instant read from the clock
    uuids,   \* how many ids Uuid::new_v4 has produced
    last,    \* the call that ran last: its name, arguments and result
    proc,    \* the calls in progress, in the specifications that run them
             \* one file operation at a time
    hist     \* what those specifications remember of the calls made so far

vars == <<fs, clock, uuids, last, proc, hist>>

\* The longest run of calls, in instants of the clock.
MaxClock == 3

\* How many fresh ids are drawn.
MaxUuids == 2

\* Uuid::new_v4().to_string(): the k-th fresh id.
Uuid(k) == <<"u", DateDigit[k + 1]>>

ExplicitIds == {<<"x">>}

InvalidIds == {<<"/">>}

NoteIds == ExplicitIds \cup {Uuid(k) : k \in 1..MaxUuids}

Titles == {<<"A", "b">>, <<"c">>}

Bodies == {<<"#", "b", " ", "#", "a">>, <<"[", "[", "a", "b", "]", "]">>}

TagArgs == {<<" ", "a">>}

\* The lists of one or two ids the batch operations are called with.
IdLists == {<<a>> : a \in NoteIds} \cup {<<a, b>> : a, b \in NoteIds}

Now == Rfc3339(clock + 1)

Fresh == Uuid(uuids + 1)

Index == read_index(fs).index

InIndex(id) == Position(Index.notes, id) > 0

NoteOf(id) == Index.notes[Position(Index.notes, id)]

NoCall == [op |-> "none", id |-> <<>>, ok |-> TRUE,
           existing |-> FALSE, had_body |-> FALSE, had_versions |-> FALSE,
           had_tags |-> <<>>, at |-> Rfc3339(0)]

\* The record of a call on note `id` that returned `res`.
Call(op, id, res, at) ==
    [op |-> op, id |-> id, ok |-> res.ok,
     existing |-> InIndex(id), had_body |-> body_exists(fs, id),
     had_versions |-> VersionCount(fs, versions_dir(id)) > 0,
     had_tags |-> IF InIndex(id) THEN NoteOf(id).tags ELSE <<>>, at |-> at]

\* One whole call: its result becomes the state.
Return(op, id, res, at, drawn) ==
    /\ clock < MaxClock
    /\ fs' = res.fs
    /\ clock' = clock + 1
    /\ uuids' = uuids + drawn
    /\ last' = Call(op, id, res, at)
    /\ UNCHANGED <<proc, hist>>

Idle == [pc |-> "idle"]

NoHist == [none |-> TRUE]

Init ==
    /\ fs = init_storage(EmptyFs)
    /\ clock = 0
    /\ uuids = 0
    /\ last = NoCall
    /\ proc = Idle
    /\ hist = NoHist

(***************************************************************************)
(* Actions: one per storage operation, run as a whole                      *)
(***************************************************************************)

SaveNew(title, body) ==
    /\ uuids < MaxUuids
    /\ LET res == save_note(fs, Now, Fresh, None, title, body)
       IN  Return("save", Fresh, res, Now, IF res.ok THEN 1 ELSE 0)

SaveWithId(id, title, body) ==
    Return("save", id, save_note(fs, Now, Fresh, Some(id), title, body), Now, 0)

ToggleImportant(id, important) ==
    Return("toggle", id, toggle_important(fs, Now, id, important), Now, 0)

UpdateNoteTitle(id, title) ==
    Return("title", id, update_note_title(fs, Now, id, title), Now, 0)

DeleteNote(id) ==
    Return("delete", id, delete_note(fs, id), Now, 0)

AddTagToNotes(ids, tag) ==
    Return("add_tag", ids[1], add_tag_to_notes(fs, Now, ids, tag), Now, 0)

RemoveTagFromNote(id, tag) ==
    Return("remove_tag", id, remove_tag_from_note(fs, Now, id, tag), Now, 0)

AttachImage(id) ==
    Return("attach", id, attach_image_from_clipboard(fs, Now, id, <<"p">>), Now, 0)

DuplicateNote(id) ==
    /\ uuids < MaxUuids
    /\ LET res == duplicate_note(fs, Now, Now, Fresh, id)
       IN  Return("duplicate", id, res, Now, IF InIndex(id) THEN 1 ELSE 0)

MergeNotes(ids) ==
    Return("merge", ids[1], merge_notes(fs, Now, ids), Now, 0)

GetOrCreateDailyNote ==
    /\ uuids < MaxUuids
    /\ LET res == get_or_create_daily_note(fs, Now, Fresh)
       IN  Return("daily", res.meta.id, res, Now,
                  IF res.ok /\ res.meta.id = Fresh THEN 1 ELSE 0)

DailyNoteCrash ==
    /\ uuids < MaxUuids
    /\ read_index(fs).ok
    /\ daily_position(Index.notes, FormatDate(Now)) = 0
    /\ Return("daily_crash", Fresh,
              [fs |-> daily_note_interrupted(fs, Now, Fresh), ok |-> FALSE], Now, 1)

RestoreNoteVersion(id, saved_at) ==
    Return("restore", id, restore_note_version(fs, Now, Fresh, id, saved_at),
           saved_at, 0)

CreateNotebook(name) ==
    /\ uuids < MaxUuids
    /\ LET res == create_notebook(fs, Now, Fresh, name)
       IN  Return("notebook", Fresh, res, Now, IF res.ok THEN 1 ELSE 0)

MoveNoteToNotebook(id, notebook_id) ==
    Return("move", id, move_note_to_notebook(fs, Now, id, notebook_id), Now, 0)

Next ==
    \/ \E t \in Titles, b \in Bodies : SaveNew(t, b)
    \/ \E id \in ExplicitIds \cup InvalidIds, t \in Titles, b \in Bodies :
          SaveWithId(id, t, b)
    \/ \E id \in NoteIds, imp \in BOOLEAN : ToggleImportant(id, imp)
    \/ \E id \in NoteIds, t \in Titles : UpdateNoteTitle(id, t)
    \/ \E id \in NoteIds : DeleteNote(id)
    \/ \E ids \in IdLists, tag \in TagArgs : AddTagToNotes(ids, tag)
    \/ \E id \in NoteIds, tag \in TagArgs : RemoveTagFromNote(id, Trim(tag))
    \/ \E id \in NoteIds : AttachImage(id)
    \/ \E id \in NoteIds : DuplicateNote(id)
    \/ \E ids \in IdLists : MergeNotes(ids)
    \/ GetOrCreateDailyNote
    \/ DailyNoteCrash
    \/ \E id \in NoteIds, t \in 1..MaxClock : RestoreNoteVersion(id, Rfc3339(t))
    \/ \E name \in Titles : CreateNotebook(name)
    \/ \E id \in NoteIds, k \in 0..MaxUuids :
          MoveNoteToNotebook(id, IF k = 0 THEN None ELSE Some(Uuid(k)))

Spec == Init /\ [][Next]_vars

(***************************************************************************)
(* Properties of the whole-call specification                              *)
(***************************************************************************)

StrictlyAscending(s) == \A i \in 1..(Len(s) - 1) : StrLess(s[i], s[i + 1])

C9_UniqueIds ==
    /\ \A i, j \in 1..Len(Index.notes) :
          Index.notes[i].id = Index.notes[j].id => i = j
    /\ \A i, j \in 1..Len(Index.notebooks) :
          Index.notebooks[i].id = Index.notebooks[j].id => i = j

\* C9 witness: a save with an explicit id has just updated a note that was
\* already in an index of two or more notes.
C9_Witness ==
    /\ last.op = "save" /\ last.ok /\ last.existing
    /\ Len(Index.notes) >= 2

\* C10: no note's links_to holds the note's own id.
C10_NoSelfLink ==
    \A i \in 1..Len(Index.notes) :
        ~Contains(Index.notes[i].links_to, Index.notes[i].id)

\* C10 witness: a note already in the index was saved with a body holding a
\* [[...]] token matching its own title while a later note of the index has
\* the same title; the link went to the other note.
C10_Witness ==
    \E i, j \in 1..Len(Index.notes) :
        /\ i < j
        /\ to_lowercase(Index.notes[i].title) = to_lowercase(Index.notes[j].title)
        /\ read_body(fs, Index.notes[i].id)
               = <<"[", "[">> \o to_lowercase(Index.notes[i].title) \o <<"]", "]">>
        /\ Index.notes[i].links_to = <<Index.notes[j].id>>
        /\ last.op = "save" /\ last.ok /\ last.existing
        /\ last.id = Index.notes[i].id

\* C6: after delete_note succeeds the note is not in the index, its body
\* file, image directory and version directory do not exist, and read_note
\* fails with "Note not found".
C6_DeleteRemovesEverything ==
    (last.op = "delete" /\ last.ok) =>
        /\ ~InIndex(last.id)
        /\ ~body_exists(fs, last.id)
        /\ images_dir(last.id) \notin DOMAIN fs.images
        /\ versions_dir(last.id) \notin DOMAIN fs.versions
        /\ ~read_note(fs, last.id).ok
        /\ read_note(fs, last.id).err = NotFound

\* C6 witness: a delete succeeded on a note that had a body file and snapshots.
C6_Witness ==
    last.op = "delete" /\ last.ok /\ last.had_body /\ last.had_versions

\* The snapshot a save of note `id` is expected to take, read off the state
\* before the save.
ExpectedSnapshot(id) ==
    [saved_at |-> NoteOf(id).updated_at,
     title    |-> NoteOf(id).title,
     body     |-> fs.notes[note_path(id)]]

C5_RestoreIsVersioned ==
    [][ (last'.op = "restore" /\ last'.ok /\ InIndex(last'.id)) =>
            LET snap == get_note_version(fs, last'.id, last'.at).snapshot
            IN  /\ get_note_version(fs, last'.id, last'.at).ok
                /\ read_note(fs', last'.id).meta.title = snap.title
                /\ read_body(fs', last'.id) = snap.body
                /\ ExpectedSnapshot(last'.id) \in Snapshots(fs', last'.id)
                /\ ExpectedSnapshot(last'.id) \notin Snapshots(fs, last'.id) ]_vars

\* C5 witness: a restore succeeded on a note in the index and the note has
\* the restored snapshot and the fresh one.
C5_Witness ==
    /\ last.op = "restore" /\ last.ok /\ last.existing
    /\ Cardinality(Snapshots(fs, last.id)) >= 2

(***************************************************************************)
(* SpecRetention: one note saved again and again, a save running as the    *)
(* three stretches of save_note between which the version directory        *)
(* differs: the snapshot is written, the directory is pruned, the body and *)
(* the index are stored.                                                   *)
(***************************************************************************)

\* The number of save calls made on the note, the creating one included.
MaxSaves == 32

\* The number of calls between the saves that change updated_at only.
MaxToggles == 2

RetId == <<"x">>

RetTitle == <<"c">>

RetBody == <<"#", "b", " ", "#", "a">>

RetDir == versions_dir(RetId)

RetPlan == save_plan(fs, Now, Fresh, Some(RetId), RetTitle, RetBody)

InitRetention ==
    /\ fs = init_storage(EmptyFs)
    /\ clock = 0
    /\ uuids = 0
    /\ last = NoCall
    /\ proc = Idle
    /\ hist = [calls |-> 0, saves |-> 0, written |-> {}, toggles |-> 0]

\* Lines 240-277: the index is loaded and, for an existing note with a body
\* file, the snapshot of the prior state is written.
SaveWriteSnapshot ==
    /\ proc.pc = "idle"
    /\ hist.calls < MaxSaves
    /\ RetPlan.err = ""
    /\ hist' = [hist EXCEPT !.calls = @ + 1]
    /\ IF takes_snapshot(fs, RetPlan)
       THEN /\ fs' = write_snapshot(fs, RetId, prior_snapshot(fs, RetPlan.prior))
            /\ proc' = [pc |-> "prune", saved_at |-> RetPlan.prior.updated_at]
       ELSE /\ fs' = fs
            /\ proc' = [pc |-> "store", saved_at |-> Rfc3339(0)]
    /\ UNCHANGED <<clock, uuids, last>>

\* Lines 278-289: the names beyond the newest MAX_VERSIONS_PER_NOTE are removed.
SavePruneVersions ==
    /\ proc.pc = "prune"
    /\ fs' = prune_versions(fs, RetId)
    /\ proc' = [proc EXCEPT !.pc = "stored_versions"]
    /\ UNCHANGED <<clock, uuids, last, hist>>

\* Lines 292-341: the metadata is updated, the body and the index are stored.
SaveStore ==
    /\ proc.pc \in {"store", "stored_versions"}
    /\ fs' = write_index(write_body(fs, RetId, RetBody), RetPlan.index)
    /\ clock' = clock + 1
    /\ proc' = Idle
    /\ hist' = IF proc.pc = "stored_versions"
               THEN [hist EXCEPT !.saves = @ + 1,
                                 !.written = @ \cup {proc.saved_at}]
               ELSE hist
    /\ UNCHANGED <<uuids, last>>

\* toggle_important between two saves: updated_at moves, no snapshot is taken.
RetToggleImportant ==
    /\ proc.pc = "idle"
    /\ hist.toggles < MaxToggles
    /\ InIndex(RetId)
    /\ fs' = toggle_important(fs, Now, RetId, ~NoteOf(RetId).important).fs
    /\ clock' = clock + 1
    /\ hist' = [hist EXCEPT !.toggles = @ + 1]
    /\ UNCHANGED <<uuids, last, proc>>

NextRetention ==
    \/ SaveWriteSnapshot
    \/ SavePruneVersions
    \/ SaveStore
    \/ RetToggleImportant

SpecRetention == InitRetention /\ [][NextRetention]_vars

Min(a, b) == IF a < b THEN a ELSE b

\* The k most recent instants of a set of instants.
MostRecent(instants, k) ==
    {w \in instants : Cardinality({v \in instants : TimeLess(w, v)}) < k}

\* C3: after n successful saves of the existing note with a body, its
\* snapshot files are exactly the min(n, 30) snapshots with the most recent
\* saved_at among all the snapshots those saves wrote.
C3_NewestThirtyKept ==
    proc.pc = "idle" =>
        /\ VersionCount(fs, RetDir) = Min(hist.saves, MAX_VERSIONS_PER_NOTE)
        /\ Cardinality(Snapshots(fs, RetId)) = Min(hist.saves, MAX_VERSIONS_PER_NOTE)
        /\ {s.saved_at : s \in Snapshots(fs, RetId)}
               = MostRecent(hist.written, MAX_VERSIONS_PER_NOTE)
        /\ Cardinality(hist.written) = hist.saves

\* C3 witness: the 31st save of the existing note has returned, 30 files
\* remain and the oldest snapshot written is not among them.
C3_Witness ==
    /\ proc.pc = "idle"
    /\ hist.saves = MAX_VERSIONS_PER_NOTE + 1
    /\ VersionCount(fs, RetDir) = MAX_VERSIONS_PER_NOTE
    /\ \E w \in hist.written : \A s \in Snapshots(fs, RetId) : s.saved_at # w

IsPrefix(a, b) == Len(a) <= Len(b) /\ SubSeq(b, 1, Len(a)) = a

\* The contents a file can have after a crash.
CrashContents(f) ==
    IF IsPrefix(f.durable, f.content)
    THEN {SubSeq(f.content, 1, k) : k \in Len(f.durable)..Len(f.content)}
    ELSE {f.durable} \cup {SubSeq(f.content, 1, k) : k \in 0..Len(f.content)}

CrashFiles(f) ==
    IF ~f.exists THEN {NoFile}
    ELSE {[exists |-> TRUE, content |-> c, durable |-> c] : c \in CrashContents(f)}
         \cup (IF f.durable = <<>> THEN {NoFile} ELSE {})

\* The index a finished call has stored.
stored_index(res) == read_index(res.fs).index

\* The files as a call leaves them just before it enters write_index.
before_store(old, res) == [res.fs EXCEPT !.index = old.index, !.tmp = old.tmp]

InitCrash ==
    /\ fs = EmptyFs
    /\ clock = 0
    /\ uuids = 0
    /\ last = NoCall
    /\ proc = Idle
    /\ hist = [old |-> EmptyIndex, new |-> EmptyIndex, old_file |-> NoFile,
               crashed_at |-> "never"]

\* The call runs up to its write_index (line 183): the index to store is
\* serialized.
StoreBegin(res) ==
    /\ proc.pc = "idle"
    /\ clock < MaxClock
    /\ res.ok
    /\ fs' = before_store(fs, res)
    /\ clock' = clock + 1
    /\ proc' = [pc |-> "create", chunks |-> Serialize(stored_index(res)), pos |-> 0]
    /\ hist' = [hist EXCEPT !.old = read_index(fs).index,
                            !.new = stored_index(res),
                            !.old_file = fs.index]
    /\ UNCHANGED <<uuids, last>>

\* init_storage at the start of the process (lines 167-179).
StoreInit ==
    /\ ~fs.index.exists
    /\ StoreBegin(Ok(init_storage(fs), NoMeta))

StoreSave(id, title, body) ==
    /\ fs.index.exists
    /\ StoreBegin(save_note(fs, Now, Fresh, Some(id), title, body))

StoreToggle(id) ==
    /\ fs.index.exists
    /\ InIndex(id)
    /\ StoreBegin(toggle_important(fs, Now, id, ~NoteOf(id).important))

\* Line 186: File::create(&temp_path)
StoreCreate ==
    /\ proc.pc = "create"
    /\ fs' = CreateTmp(fs)
    /\ proc' = [proc EXCEPT !.pc = "write"]
    /\ UNCHANGED <<clock, uuids, last, hist>>

\* Line 187: one write call of write_all
StoreWrite ==
    /\ proc.pc = "write"
    /\ fs' = WriteChunk(fs, "tmp", proc.pos, proc.chunks[proc.pos + 1])
    /\ proc' = [proc EXCEPT !.pos = @ + 1,
                            !.pc = IF proc.pos + 1 = Len(proc.chunks)
                                   THEN "sync" ELSE "write"]
    /\ UNCHANGED <<clock, uuids, last, hist>>

\* Lines 188-189: f.sync_all(); drop(f)
StoreSync ==
    /\ proc.pc = "sync"
    /\ fs' = SyncAll(fs, "tmp")
    /\ proc' = [proc EXCEPT !.pc = "rename"]
    /\ UNCHANGED <<clock, uuids, last, hist>>

\* Line 190: fs::rename(&temp_path, &path)
StoreRename ==
    /\ proc.pc = "rename"
    /\ fs' = RenameTmp(fs)
    /\ proc' = [proc EXCEPT !.pc = "renamed"]
    /\ UNCHANGED <<clock, uuids, last, hist>>

\* Line 191: Ok(())
StoreReturn ==
    /\ proc.pc = "renamed"
    /\ proc' = Idle
    /\ UNCHANGED <<fs, clock, uuids, last, hist>>

\* The crash: what was not synced may be lost, the process starts again.
Crash ==
    /\ proc.pc # "idle"
    /\ \E index \in CrashFiles(fs.index), tmp \in CrashFiles(fs.tmp) :
          fs' = [fs EXCEPT !.index = index, !.tmp = tmp]
    /\ proc' = Idle
    /\ hist' = [hist EXCEPT !.crashed_at = proc.pc]
    /\ UNCHANGED <<clock, uuids, last>>

\* The crash right after the rename, the rename not having reached the disk.
CrashUndoingRename ==
    /\ proc.pc = "renamed"
    /\ \E index \in CrashFiles(hist.old_file), tmp \in CrashFiles(fs.index) :
          fs' = [fs EXCEPT !.index = index, !.tmp = tmp]
    /\ proc' = Idle
    /\ hist' = [hist EXCEPT !.crashed_at = "rename undone"]
    /\ UNCHANGED <<clock, uuids, last>>

NextCrash ==
    \/ StoreInit
    \/ \E id \in ExplicitIds, title \in Titles, body \in Bodies :
          StoreSave(id, title, body)
    \/ \E id \in ExplicitIds : StoreToggle(id)
    \/ StoreCreate
    \/ StoreWrite
    \/ StoreSync
    \/ StoreRename
    \/ StoreReturn
    \/ Crash
    \/ CrashUndoingRename

SpecCrash == InitCrash /\ [][NextCrash]_vars

\* C1: with one writer and crashes at any step of write_index, the index
\* file at the destination is at every moment either the complete previous
\* index or the complete new one; read_index never fails on it.
C1_IndexOldOrNew ==
    /\ read_index(fs).ok
    /\ fs.index.exists => ParseOk(fs.index.content)
    /\ read_index(fs).index \in {hist.old, hist.new}

\* C1 witness: a crash in the middle of write_all left a partly written
\* temporary file while the destination still holds the previous index,
\* which differs from the one that was being stored.
C1_Witness ==
    /\ proc.pc = "idle"
    /\ hist.crashed_at = "write"
    /\ fs.tmp.exists /\ fs.tmp.content # <<>> /\ ~ParseOk(fs.tmp.content)
    /\ hist.old # hist.new
    /\ Len(hist.old.notes) > 0
    /\ read_index(fs).index = hist.old

(***************************************************************************)
(* SpecRace: two callers run mutations against the same root with no       *)
(* serialization between them, each write_index one file operation at a    *)
(* time.  Both use the one temporary path; an open descriptor follows its  *)
(* file through a rename, so `at` records the name the file has now.       *)
(***************************************************************************)

Writers == {"A", "B"}

\* The number of calls the two callers make in all.
MaxRaceCalls == 3

RaceId == <<"x">>

InitRace ==
    /\ fs = save_note(init_storage(EmptyFs), Rfc3339(1), Uuid(1),
                      Some(RaceId), <<"c">>, <<"#", "a">>).fs
    /\ clock = 1
    /\ uuids = 0
    /\ last = NoCall
    /\ proc = [w \in Writers |-> [pc |-> "idle", ok |-> TRUE,
                                  chunks |-> <<>>, pos |-> 0, at |-> "none"]]
    /\ hist = [calls |-> 0, renamed |-> read_index(fs).index, failed |-> FALSE]

\* The call loads the index and runs up to its write_index; a call that
\* cannot load the index returns its error at once.
RaceBegin(w, res) ==
    /\ proc[w].pc \in {"idle", "done"}
    /\ hist.calls < MaxRaceCalls
    /\ clock' = clock + 1
    /\ hist' = [hist EXCEPT !.calls = @ + 1, !.failed = @ \/ ~res.ok]
    /\ IF res.ok
       THEN /\ fs' = before_store(fs, res)
            /\ proc' = [proc EXCEPT ![w] =
                          [pc |-> "create", ok |-> TRUE,
                           chunks |-> Serialize(stored_index(res)),
                           pos |-> 0, at |-> "none"]]
       ELSE /\ fs' = fs
            /\ proc' = [proc EXCEPT ![w] =
                          [pc |-> "done", ok |-> FALSE,
                           chunks |-> <<>>, pos |-> 0, at |-> "none"]]
    /\ UNCHANGED <<uuids, last>>

RaceToggle(w) ==
    RaceBegin(w, toggle_important(fs, Now, RaceId,
                  IF InIndex(RaceId) THEN ~NoteOf(RaceId).important ELSE TRUE))

RaceUpdateTitle(w, title) ==
    RaceBegin(w, update_note_title(fs, Now, RaceId, title))

\* Line 186: File::create(&temp_path) opens the one temporary path, the file
\* another caller may be writing, and truncates it.
RaceCreate(w) ==
    /\ proc[w].pc = "create"
    /\ fs' = CreateTmp(fs)
    /\ proc' = [proc EXCEPT ![w].pc = "write", ![w].at = "tmp"]
    /\ UNCHANGED <<clock, uuids, last, hist>>

\* Line 187: one write call of write_all, at the descriptor's own offset.
RaceWrite(w) ==
    /\ proc[w].pc = "write"
    /\ fs' = WriteChunk(fs, proc[w].at, proc[w].pos, proc[w].chunks[proc[w].pos + 1])
    /\ proc' = [proc EXCEPT ![w].pos = @ + 1,
                            ![w].pc = IF proc[w].pos + 1 = Len(proc[w].chunks)
                                      THEN "sync" ELSE "write"]
    /\ UNCHANGED <<clock, uuids, last, hist>>

\* Lines 188-189: f.sync_all(); drop(f)
RaceSync(w) ==
    /\ proc[w].pc = "sync"
    /\ fs' = SyncAll(fs, proc[w].at)
    /\ proc' = [proc EXCEPT ![w].pc = "rename", ![w].at = "none"]
    /\ UNCHANGED <<clock, uuids, last, hist>>

\* Where a descriptor's file is after a rename of the temporary path onto
\* the index path.
AfterRename(at) ==
    CASE at = "tmp"   -> "index"
      [] at = "index" -> "orphan"
      [] OTHER        -> at

\* Line 190: fs::rename(&temp_path, &path)?; line 191: Ok(())
RaceRename(w) ==
    /\ proc[w].pc = "rename"
    /\ IF RenameOk(fs)
       THEN /\ fs' = RenameTmp(fs)
            /\ proc' = [v \in Writers |->
                          IF v = w THEN [proc[v] EXCEPT !.pc = "done", !.ok = TRUE]
                          ELSE [proc[v] EXCEPT !.at = AfterRename(@)]]
            /\ hist' = [hist EXCEPT !.renamed = Parsed(proc[w].chunks)]
       ELSE /\ fs' = fs
            /\ proc' = [proc EXCEPT ![w].pc = "done", ![w].ok = FALSE]
            /\ hist' = [hist EXCEPT !.failed = TRUE]
    /\ UNCHANGED <<clock, uuids, last>>

NextRace ==
    \E w \in Writers :
        \/ RaceToggle(w)
        \/ \E title \in Titles : RaceUpdateTitle(w, title)
        \/ RaceCreate(w)
        \/ RaceWrite(w)
        \/ RaceSync(w)
        \/ RaceRename(w)

SpecRace == InitRace /\ [][NextRace]_vars

\* No call is in progress and both callers have made one.
RaceOver == \A w \in Writers : proc[w].pc = "done"

\* C7 (as claimed): when two concurrent mutations are over, both have
\* reported success and the index file is exactly the complete index of the
\* store whose rename happened last.
C7_LastRenameWins ==
    RaceOver =>
        /\ \A w \in Writers : proc[w].ok
        /\ ~hist.failed
        /\ read_index(fs).ok
        /\ read_index(fs).index = hist.renamed

(***************************************************************************)
(* Tags and links of a save                                                *)
(***************************************************************************)

\* C11: after a successful save the note's tags are the sorted union of the
\* tags of the saved body and the tags of the saved title, whatever tags the
\* note had before.
C11_SaveReplacesTags ==
    (last.op = "save" /\ last.ok) =>
        NoteOf(last.id).tags
            = SortStrings(SeqToSet(extract_tags_from_body(read_body(fs, last.id)))
                          \cup SeqToSet(extract_tags_from_title(NoteOf(last.id).title)))

\* C11 witness: a save succeeded on a note whose tags were out of order, as
\* add_tag_to_notes leaves them, one of them a tag that neither the new
\* title nor the new body yields; the tag is gone.
C11_Witness ==
    /\ last.op = "save" /\ last.ok /\ last.existing
    /\ \E i \in 1..Len(last.had_tags) :
          /\ ~Contains(NoteOf(last.id).tags, last.had_tags[i])
          /\ ~Contains(extract_tags_from_body(read_body(fs, last.id)), last.had_tags[i])
          /\ ~Contains(extract_tags_from_title(NoteOf(last.id).title), last.had_tags[i])
    /\ ~StrictlyAscending(last.had_tags)
    /\ NoteOf(last.id).tags # <<>>

(***************************************************************************)
(* SpecLinks: extract_links_from_body, alone and inside save_note, on an    *)
(* index of up to MaxLinkNotes notes and a body of up to MaxLinkTokens      *)
(* closed [[...]] tokens.                                                   *)
(***************************************************************************)

MaxLinkNotes == 3

MaxLinkTokens == 2

\* The ids of the notes of the index, by position: not in sorted order.
LinkIds == << <<"y">>, <<"x">>, <<"p">>, <<"d">>, <<"c">> >>

LinkNoteTitles == {<<"A", "b">>, <<"a", "b">>, <<"c">>, <<" ", "c">>}

\* What stands between [[ and ]].
LinkTokens == {<<"a", "b">>, <<"A", "B">>, <<" ", "c", " ">>, <<"b">>}

LinkFiller == <<"b", " ">>

SeqsUpTo(S, n) == UNION {[1..k -> S] : k \in 0..n}

RECURSIVE LinkBody(_)
LinkBody(tokens) ==
    IF tokens = <<>> THEN LinkFiller
    ELSE LinkFiller \o <<"[", "[">> \o tokens[1] \o <<"]", "]">> \o LinkBody(Tail(tokens))

LinkNotes(titles) ==
    [i \in 1..Len(titles) |->
        NewNoteMeta(LinkIds[i], titles[i], Rfc3339(i), <<>>, <<>>, FALSE)]

RECURSIVE WriteBodies(_, _)
WriteBodies(f, notes) ==
    IF notes = <<>> THEN f
    ELSE WriteBodies(write_body(f, notes[1].id, <<>>), Tail(notes))

InitLinks ==
    /\ \E titles \in SeqsUpTo(LinkNoteTitles, MaxLinkNotes) :
          fs = write_index(WriteBodies(init_storage(EmptyFs), LinkNotes(titles)),
                           [EmptyIndex EXCEPT !.notes = LinkNotes(titles)])
    /\ clock = MaxLinkNotes
    /\ uuids = 0
    /\ last = NoCall
    /\ proc = Idle
    /\ hist = [tokens |-> <<>>, notes |-> <<>>, exclude_id |-> <<>>,
               out |-> <<>>, saved |-> FALSE]

\* extract_links_from_body applied to a body, the index and an id to exclude.
LinkExtract(tokens, exclude_id) ==
    /\ proc.pc = "idle"
    /\ proc' = [pc |-> "done"]
    /\ hist' = [tokens |-> tokens, notes |-> Index.notes, exclude_id |-> exclude_id,
                out |-> extract_links_from_body(LinkBody(tokens), Index.notes, exclude_id),
                saved |-> FALSE]
    /\ UNCHANGED <<fs, clock, uuids, last>>

\* save_note of a body with links, on a note of the index or as a new note.
LinkSave(note_id, tokens) ==
    LET res == save_note(fs, Now, Fresh, note_id, <<"d">>, LinkBody(tokens))
    IN  /\ proc.pc = "idle"
        /\ res.ok
        /\ fs' = res.fs
        /\ clock' = clock + 1
        /\ uuids' = uuids + (IF note_id.some THEN 0 ELSE 1)
        /\ last' = Call("save", res.meta.id, res, Now)
        /\ proc' = [pc |-> "done"]
        /\ hist' = [tokens |-> tokens, notes |-> Index.notes,
                    exclude_id |-> IF note_id.some THEN note_id.v ELSE <<>>,
                    out |-> res.meta.links_to, saved |-> TRUE]

LinkExcludes == {<<>>} \cup {LinkIds[i] : i \in 1..MaxLinkNotes}

NextLinks ==
    \/ \E tokens \in SeqsUpTo(LinkTokens, MaxLinkTokens), exclude_id \in LinkExcludes :
          LinkExtract(tokens, exclude_id)
    \/ \E tokens \in SeqsUpTo(LinkTokens, MaxLinkTokens),
          note_id \in {None} \cup {Some(LinkIds[i]) : i \in 1..MaxLinkNotes} :
          LinkSave(note_id, tokens)

SpecLinks == InitLinks /\ [][NextLinks]_vars

\* The trimmed title of token t matches the title of note n, case aside.
TitleMatches(t, n) == to_lowercase(n.title) = to_lowercase(Trim(t))

\* The ids the [[Title]] tokens resolve to: for each token with a title, the
\* first note in index order, other than exclude_id, whose title matches.
ResolvedIds(tokens, notes, exclude_id) ==
    {notes[i].id : i \in {i \in 1..Len(notes) :
        \E k \in 1..Len(tokens) :
            /\ Trim(tokens[k]) # <<>>
            /\ notes[i].id # exclude_id /\ TitleMatches(tokens[k], notes[i])
            /\ \A j \in 1..(i - 1) :
                  ~(notes[j].id # exclude_id /\ TitleMatches(tokens[k], notes[j]))}}

\* C12: extract_links_from_body returns, sorted ascending without
\* duplicates, exactly the ids its [[Title]] tokens resolve to, and a save
\* records that list as the links_to of the saved note.
C12_LinksResolveFirstMatch ==
    proc.pc = "done" =>
        /\ SeqToSet(hist.out) = ResolvedIds(hist.tokens, hist.notes, hist.exclude_id)
        /\ StrictlyAscending(hist.out)
        /\ hist.saved => NoteOf(last.id).links_to = hist.out

\* C12 witness: a save of an indexed note whose body has two tokens, one
\* matching two notes of the index (the first of them being the saved note
\* itself), recorded two links, the ids out of index order.
C12_Witness ==
    /\ proc.pc = "done" /\ hist.saved
    /\ Len(hist.out) = 2
    /\ \E i, j \in 1..Len(hist.notes) :
          /\ i < j
          /\ hist.notes[i].id = hist.exclude_id
          /\ to_lowercase(hist.notes[i].title) = to_lowercase(hist.notes[j].title)
          /\ Contains(hist.out, hist.notes[j].id)
    /\ \E i, j \in 1..Len(hist.notes) :
          /\ i < j /\ StrLess(hist.notes[j].id, hist.notes[i].id)
          /\ Contains(hist.out, hist.notes[i].id)
          /\ Contains(hist.out, hist.notes[j].id)

(***************************************************************************)
(* SpecSearch: search_notes on an index of two notes, each drawn from a    *)
(* set of profiles, with a query of up to MaxQueryParts parts.             *)
(***************************************************************************)

\* The day of the search, counted from the first day of the clock.
SearchToday == 40

MaxQueryParts == 2

SearchNow == Rfc3339(SearchToday * TicksPerDay + TicksPerDay - 1)

SearchIds == << <<"x">>, <<"y">> >>

PlainBody == <<"a", "b">>
UncheckedBody == <<"c", "\n", "-", " ", "[", " ", "]", " ", "d">>
CheckedBody == <<" ", "*", " ", "[", "X", "]", "\n", "c">>

\* Notes that differ in tags, star, attachments and task lines.
AttributeProfiles ==
    {[title |-> <<"c">>, tags |-> tags, important |-> FALSE,
      image |-> content.image, body |-> content.body, off |-> 0] :
        tags \in {<<<<"A">>>>, <<<<"b">>>>, <<<<"a">>, <<"b">>>>},
        content \in {[image |-> FALSE, body |-> PlainBody],
                     [image |-> FALSE, body |-> UncheckedBody],
                     [image |-> FALSE, body |-> CheckedBody]}}
    \cup
    {[title |-> <<"c">>, tags |-> <<<<"A">>>>, important |-> TRUE,
      image |-> TRUE, body |-> PlainBody, off |-> 0],
     [title |-> <<"c">>, tags |-> <<<<"a">>, <<"b">>>>, important |-> FALSE,
      image |-> TRUE, body |-> UncheckedBody, off |-> 0],
     [title |-> <<"c">>, tags |-> <<<<"b">>>>, important |-> TRUE,
      image |-> FALSE, body |-> CheckedBody, off |-> 0]}

\* Notes that differ in where a text is found.
TextProfiles ==
    {[title |-> t.title, tags |-> <<>>, important |-> FALSE,
      image |-> FALSE, body |-> t.body, off |-> 0] :
        t \in {[title |-> <<"A", "b">>, body |-> <<"c">>],
               [title |-> <<"c">>, body |-> <<"a", "B">>],
               [title |-> <<"a">>, body |-> <<"b", " ", "c">>]}}

\* Notes that differ in the day of their last update, relative to today.
DateProfiles ==
    {[title |-> <<"c">>, tags |-> <<>>, important |-> FALSE,
      image |-> FALSE, body |-> PlainBody, off |-> off] :
        off \in {0 - 31, 0 - 30, 0 - 8, 0 - 7, 0 - 1, 1}}

SearchProfiles == AttributeProfiles \cup TextProfiles \cup DateProfiles

SearchImage(id) ==
    [name |-> <<"p">>,
     path |-> [dir |-> id, file |-> StoredName(Rfc3339(0), <<"p">>)],
     added_at |-> Rfc3339(0), size |-> SomeSize(1)]

\* The note at position i of the index, made from a profile.
SearchNote(i, p) ==
    LET at == Rfc3339((SearchToday + p.off) * TicksPerDay + i - 1)
    IN  [NewNoteMeta(SearchIds[i], p.title, at, p.tags, <<>>, FALSE) EXCEPT
            !.important = p.important,
            !.images = IF p.image THEN <<SearchImage(SearchIds[i])>> ELSE <<>>]

RECURSIVE WriteProfileBodies(_, _, _)
WriteProfileBodies(f, ps, i) ==
    IF i > Len(ps) THEN f
    ELSE WriteProfileBodies(write_body(f, SearchIds[i], ps[i].body), ps, i + 1)

SearchParts ==
    { <<"t", "a", "g", ":", "a">>,
      <<"t", "a", "g", ":", "B">>,
      <<"t", "a", "g", ":">>,
      <<"i", "s", ":", "s", "t", "a", "r", "r", "e", "d">>,
      <<"h", "a", "s", ":", "a", "t", "t", "a", "c", "h", "m", "e", "n", "t", "s">>,
      <<"h", "a", "s", ":", "t", "a", "s", "k", "s">>,
      <<"i", "s", ":", "c", "o", "m", "p", "l", "e", "t", "e", "d">>,
      <<"i", "s", ":", "u", "n", "c", "o", "m", "p", "l", "e", "t", "e", "d">>,
      <<"d", "a", "t", "e", ":", "t", "o", "d", "a", "y">>,
      <<"d", "a", "t", "e", ":", "w", "e", "e", "k">>,
      <<"d", "a", "t", "e", ":", "m", "o", "n", "t", "h">>,
      <<"a", "b">>,
      <<"C">> }

\* The queries: blank ones, and the parts joined by blanks.
SearchQueries ==
    {<<>>, <<" ">>, <<"\n", " ">>}
    \cup {Join(parts, <<" ">>) :
            parts \in UNION {[1..k -> SearchParts] : k \in 1..MaxQueryParts}}

InitSearch ==
    /\ \E ps \in [1..Len(SearchIds) -> SearchProfiles] :
          fs = write_index(WriteProfileBodies(init_storage(EmptyFs), ps, 1),
                  [EmptyIndex EXCEPT !.notes =
                      [i \in 1..Len(SearchIds) |-> SearchNote(i, ps[i])]])
    /\ clock = SearchToday * TicksPerDay + TicksPerDay - 2
    /\ uuids = 0
    /\ last = NoCall
    /\ proc = Idle
    /\ hist = [query |-> <<>>, out |-> <<>>]

\* One call of search_notes; the clock is read at line 1021.
Search(query) ==
    /\ proc.pc = "idle"
    /\ search_notes(fs, Now, query).ok
    /\ proc' = [pc |-> "done"]
    /\ hist' = [query |-> query, out |-> search_notes(fs, Now, query).out]
    /\ UNCHANGED <<fs, clock, uuids, last>>

NextSearch == \E query \in SearchQueries : Search(query)

SpecSearch == InitSearch /\ [][NextSearch]_vars

\* The parts of the query of the search just made.
QueryParts == SplitWhitespace(Trim(hist.query), <<>>)

Searched == proc.pc = "done"

\* The note passes the filter that one part of a query makes on its own.
PassesAlone(n, part) == note_passes(fs, classify_part(NoFilters, part), n, Now)

\* C13 (as claimed): search returns exactly the notes that satisfy every
\* filter token of the query, each token taken on its own, also when an
\* operator appears more than once.
C13_EveryFilterTokenApplies ==
    (Searched /\ QueryParts # <<>>) =>
        SeqToSet(hist.out)
            = {n \in SeqToSet(Index.notes) :
                  \A k \in 1..Len(QueryParts) : PassesAlone(n, QueryParts[k])}

\* C14: a search with an empty or whitespace-only query returns the notes
\* of the index, all of them and in index order.
C14_BlankQueryReturnsIndex ==
    (Searched /\ Trim(hist.query) = <<>>) => hist.out = Index.notes

DescendingByUpdatedAt(notes) ==
    \A i \in 1..(Len(notes) - 1) :
        ~TimeLess(notes[i].updated_at, notes[i + 1].updated_at)

\* C14 witness: a whitespace-only query returned both notes in index order,
\* which is not the order of a search by updated_at descending.
C14_Witness ==
    /\ Searched
    /\ hist.query # <<>> /\ Trim(hist.query) = <<>>
    /\ Len(hist.out) = 2
    /\ ~DescendingByUpdatedAt(hist.out)

\* The day boundary of a date filter, as the text the dates are compared to.
DateBoundary(part) ==
    CASE to_lowercase(part) = OpToday -> FormatDate(Now)
      [] to_lowercase(part) = OpWeek  -> FormatDate(DaysBefore(Now, 7))
      [] to_lowercase(part) = OpMonth -> FormatDate(DaysBefore(Now, 30))

\* C15 (as claimed): a search for date:today, date:week or date:month keeps
\* exactly the notes whose updated_at date is not less, as a string, than
\* today, today minus 7 days, today minus 30 days.
C15_DateFiltersKeepFromBoundary ==
    (Searched /\ Len(QueryParts) = 1
              /\ to_lowercase(QueryParts[1]) \in {OpToday, OpWeek, OpMonth}) =>
        SeqToSet(hist.out)
            = {n \in SeqToSet(Index.notes) :
                  ~StrLess(FormatDate(n.updated_at), DateBoundary(QueryParts[1]))}

\* A part that no operator of the query language matches.
IsFreeText(part) == classify_part(NoFilters, part).text_parts # <<>>

\* Every term, lower-cased, is in the lower-cased title or body of the note.
HasAllTerms(n, terms) ==
    \A i \in 1..Len(terms) :
        \/ ContainsText(to_lowercase(n.title), to_lowercase(terms[i]))
        \/ ContainsText(to_lowercase(read_body(fs, n.id)), to_lowercase(terms[i]))

\* C16: every note a search keeps has each free-text term of the query in
\* its lower-cased title or body, and a query of free-text terms only keeps
\* exactly the notes that do.
C16_FreeTextAllTerms ==
    (Searched /\ QueryParts # <<>>) =>
        /\ \A i \in 1..Len(hist.out) :
              HasAllTerms(hist.out[i], SelectSeq(QueryParts, IsFreeText))
        /\ (\A k \in 1..Len(QueryParts) : IsFreeText(QueryParts[k])) =>
              SeqToSet(hist.out)
                  = {n \in SeqToSet(Index.notes) : HasAllTerms(n, QueryParts)}

\* C16 witness: a query of two terms kept one note, which has one term in
\* its title only and the other in its body only, and dropped the other.
C16_Witness ==
    /\ Searched
    /\ Len(QueryParts) = 2 /\ IsFreeText(QueryParts[1]) /\ IsFreeText(QueryParts[2])
    /\ Len(hist.out) = 1
    /\ \E a, b \in 1..2 :
          /\ ContainsText(to_lowercase(hist.out[1].title), to_lowercase(QueryParts[a]))
          /\ ~ContainsText(to_lowercase(read_body(fs, hist.out[1].id)),
                           to_lowercase(QueryParts[a]))
          /\ ContainsText(to_lowercase(read_body(fs, hist.out[1].id)),
                          to_lowercase(QueryParts[b]))
          /\ ~ContainsText(to_lowercase(hist.out[1].title), to_lowercase(QueryParts[b]))

\* C17 (as claimed): for every query that is not the empty string the
\* result is ordered by updated_at descending.
C17_NonEmptyQuerySorted ==
    (Searched /\ hist.query # <<>>) => DescendingByUpdatedAt(hist.out)

\* C17 (amended): for every query that is not empty after trimming the
\* result is ordered by updated_at descending.
C17_NonBlankQuerySorted ==
    (Searched /\ Trim(hist.query) # <<>>) => DescendingByUpdatedAt(hist.out)

\* C17 witness: a query with a part returned both notes, the later updated
\* first, against their order in the index.
C17_Witness ==
    /\ Searched /\ QueryParts # <<>>
    /\ Len(hist.out) = 2
    /\ hist.out[1] = Index.notes[2] /\ hist.out[2] = Index.notes[1]
    /\ TimeLess(hist.out[2].updated_at, hist.out[1].updated_at)

(***************************************************************************)
(* IndexStore: write_index followed by read_index, and read_index on a     *)
(* missing or damaged file                                                 *)
(***************************************************************************)

MaxIndexNotes == 2

MaxIndexNotebooks == 1

IndexImage(size) ==
    [name |-> <<"p">>,
     path |-> [dir |-> <<"x">>, file |-> StoredName(Rfc3339(0), <<"p">>)],
     added_at |-> Rfc3339(1), size |-> size]

\* Notes that differ in the fields with a default and in the optional ones.
IndexNoteValues ==
    { NewNoteMeta(<<"d">>, <<"\n">>, Rfc3339(1), <<<<"b">>>>, <<>>, FALSE),
      [NewNoteMeta(<<"y">>, <<"A", " ">>, Rfc3339(2), <<<<"a">>, <<"b">>>>,
                   <<<<"x">>>>, TRUE) EXCEPT
          !.important = TRUE, !.notebook_id = Some(<<"p">>),
          !.images = <<IndexImage(SomeSize(1)), IndexImage(NoSize)>>,
          !.updated_at = Rfc3339(3)],
      [NewNoteMeta(<<"x">>, <<>>, Rfc3339(2), <<>>, <<<<"y">>>>, FALSE) EXCEPT
          !.notebook_id = Some(<<>>), !.images = <<IndexImage(SomeSize(0))>>,
          !.filename = <<"c">>] }

IndexNotebookValues ==
    { [id |-> <<"p">>, name |-> <<"a">>, archived |-> FALSE,
       created_at |-> Rfc3339(1)],
      [id |-> <<"d">>, name |-> <<>>, archived |-> TRUE,
       created_at |-> Rfc3339(2)] }

IndexValues ==
    {[notes |-> ns, notebooks |-> bs] :
        ns \in SeqsUpTo(IndexNoteValues, MaxIndexNotes),
        bs \in SeqsUpTo(IndexNotebookValues, MaxIndexNotebooks)}

\* A JSON object without one of its keys.
Without(o, key) == [k \in DOMAIN o \ {key} |-> o[k]]

Chunks(json) == [k \in 1..NChunks |-> [json |-> json, part |-> k]]

\* Texts that are not the serialization of an index: nothing, the start of
\* one, an object without "notes", a note or notebook without a required key.
DamagedContents(index) ==
    {<<>>, Take(Serialize(index), NChunks - 1),
     Chunks(Without(IndexToJson(index), "notes"))}
    \cup {Chunks([IndexToJson(index) EXCEPT !.notes[1] = Without(@, key)]) :
            key \in IF index.notes = <<>> THEN {} ELSE {"id", "images"}}
    \cup {Chunks([IndexToJson(index) EXCEPT !.notebooks[1] = Without(@, key)]) :
            key \in IF index.notebooks = <<>> THEN {} ELSE {"createdAt"}}

\* Before any call of read_index.
NotLoaded == [ok |-> TRUE, index |-> EmptyIndex]

InitIndex ==
    /\ fs = EmptyFs
    /\ clock = 0
    /\ uuids = 0
    /\ last = NoCall
    /\ proc = Idle
    /\ hist = [file |-> "missing", stored |-> EmptyIndex, loaded |-> NotLoaded]

\* write_index(root, index), over no file or over a damaged one.
IndexStore(index) ==
    /\ hist.file # "stored"
    /\ fs' = write_index(fs, index)
    /\ proc' = [pc |-> "stored"]
    /\ hist' = [file |-> "stored", stored |-> index, loaded |-> NotLoaded]
    /\ UNCHANGED <<clock, uuids, last>>

\* read_index(root)
IndexLoad ==
    /\ proc' = [pc |-> "loaded"]
    /\ hist' = [hist EXCEPT !.loaded = read_index(fs)]
    /\ UNCHANGED <<fs, clock, uuids, last>>

\* The index file is removed from outside the program.
IndexRemove ==
    /\ fs.index.exists
    /\ fs' = [fs EXCEPT !.index = NoFile]
    /\ proc' = Idle
    /\ hist' = [hist EXCEPT !.file = "missing", !.loaded = NotLoaded]
    /\ UNCHANGED <<clock, uuids, last>>

\* The index file is overwritten from outside the program.
IndexDamage(content) ==
    /\ fs' = [fs EXCEPT !.index =
                 [exists |-> TRUE, content |-> content, durable |-> content]]
    /\ proc' = Idle
    /\ hist' = [hist EXCEPT !.file = "damaged", !.loaded = NotLoaded]
    /\ UNCHANGED <<clock, uuids, last>>

NextIndex ==
    \/ \E index \in IndexValues : IndexStore(index)
    \/ IndexLoad
    \/ IndexRemove
    \/ \E content \in DamagedContents(hist.stored) : IndexDamage(content)

SpecIndex == InitIndex /\ [][NextIndex]_vars

\* C18: read_index after write_index(X) returns Ok with an index equal to
\* X: the same notes and notebooks in the same order with the same fields.
C18_StoreThenLoad ==
    (proc.pc = "loaded" /\ hist.file = "stored") =>
        hist.loaded.ok /\ hist.loaded.index = hist.stored

\* C18 witness: an index of two notes and a notebook came back, with a note
\* in a notebook, a note in none, an image without a size, links and tags.
C18_Witness ==
    /\ proc.pc = "loaded" /\ hist.file = "stored"
    /\ Len(hist.loaded.index.notes) = 2
    /\ Len(hist.loaded.index.notebooks) = 1
    /\ hist.loaded.index.notes[1].notebook_id.some
    /\ hist.loaded.index.notes[1].links_to # <<>>
    /\ \E i \in 1..Len(hist.loaded.index.notes[1].images) :
          ~hist.loaded.index.notes[1].images[i].size.some
    /\ ~hist.loaded.index.notes[2].notebook_id.some
    /\ hist.loaded.index.notes[2].tags # <<>>

\* C19: read_index returns Ok with the empty index when the index file does
\* not exist, and an error when the file exists and its text is malformed.
C19_LoadMissingOrMalformed ==
    proc.pc = "loaded" =>
        /\ hist.file = "missing" =>
              hist.loaded = [ok |-> TRUE, index |-> EmptyIndex]
        /\ hist.file = "damaged" => ~hist.loaded.ok

\* C19 witness: a load of a file that holds an index object in which a note
\* or notebook lacks a required key, after an index with notes was stored.
C19_Witness ==
    /\ proc.pc = "loaded" /\ hist.file = "damaged"
    /\ fs.index.exists /\ Len(fs.index.content) = NChunks
    /\ "notes" \in DOMAIN fs.index.content[1].json
    /\ hist.stored.notes # <<>>
    /\ ~hist.loaded.ok

(***************************************************************************)
(* PathSandbox: sanitize_filename applied to its own result                *)
(***************************************************************************)

\* How far the filler of an input goes below and above MAX_FILENAME_CHARS.
MaxSanitizeSlack == 2

SanitizeHeads ==
    {<<>>, <<" ">>, <<"/">>, <<"\n", "a">>, <<"A", ":">>, <<"b", " ">>,
     <<" ", "\\", "?", "\"">>, <<"<", ">", "|">>}

SanitizeTails ==
    {<<>>, <<" ">>, <<"b">>, <<" ", "b">>, <<" ", " ", "b">>, <<"*", " ">>, <<"\n">>}

SanitizeFillers ==
    {0} \cup ((MAX_FILENAME_CHARS - MaxSanitizeSlack - 1)
                ..(MAX_FILENAME_CHARS + MaxSanitizeSlack))

\* Names of every length around the limit, with blanks, separators and
\* control characters at their start and around the limit.
SanitizeInputs ==
    {head \o [i \in 1..n |-> "a"] \o tail :
        head \in SanitizeHeads, n \in SanitizeFillers, tail \in SanitizeTails}

InitSanitize ==
    /\ fs = EmptyFs
    /\ clock = 0
    /\ uuids = 0
    /\ last = NoCall
    /\ proc = Idle
    /\ \E name \in SanitizeInputs : hist = [name |-> name, once |-> <<>>, twice |-> <<>>]

\* sanitize_filename(name), and sanitize_filename of what it returned.
Sanitize ==
    /\ proc.pc = "idle"
    /\ proc' = [pc |-> "done"]
    /\ hist' = [hist EXCEPT !.once = sanitize_filename(hist.name),
                            !.twice = sanitize_filename(sanitize_filename(hist.name))]
    /\ UNCHANGED <<fs, clock, uuids, last>>

NextSanitize == Sanitize

SpecSanitize == InitSanitize /\ [][NextSanitize]_vars

\* C20 (as claimed): sanitize_filename applied to its own result returns
\* that result, for every name, the names longer than 200 characters whose
\* 200th character is a blank included.
C20_SanitizeIdempotent ==
    proc.pc = "done" => hist.twice = hist.once

\* The characters sanitize_filename is to keep out of a name.
Forbidden(c) ==
    c \in {"/", "\\", ":", "*", "?", "\"", "<", ">", "|"} \/ c = "\n"

\* The blanks at the start of a name that trimming takes away: the blanks
\* before the first character that is not one.
RECURSIVE LeadingBlanks(_)
LeadingBlanks(name) ==
    IF name # <<>> /\ name[1] = " " THEN 1 + LeadingBlanks(Tail(name)) ELSE 0

\* C21: the result of sanitize_filename holds none of / \ : * ? " < > | and
\* no control character, is at most 200 characters long, and each of its
\* characters is the character of the name at its place, or _ where that
\* character is one of those.
C21_SanitizedNameIsSafe ==
    proc.pc = "done" =>
        /\ Len(hist.once) <= MAX_FILENAME_CHARS
        /\ \A i \in 1..Len(hist.once) :
              /\ ~Forbidden(hist.once[i])
              /\ hist.once[i] =
                    IF Forbidden(hist.name[i + LeadingBlanks(hist.name)])
                    THEN "_" ELSE hist.name[i + LeadingBlanks(hist.name)]

\* C21 witness: a name of more than 200 characters with a forbidden
\* character at its start and past the limit gave a name of 200 characters
\* with _ in it.
C21_Witness ==
    /\ proc.pc = "done"
    /\ Len(hist.name) > MAX_FILENAME_CHARS
    /\ Forbidden(hist.name[Len(hist.name) - 1])
    /\ \E i \in 1..2 : Forbidden(hist.name[i]) /\ hist.name[i] # "\n"
    /\ Len(hist.once) = MAX_FILENAME_CHARS
    /\ \E i \in 1..Len(hist.once) : hist.once[i] = "_"

(***************************************************************************)
(* PathSandbox: validate_note_id and validate_notebook_id                  *)
(***************************************************************************)

MaxIdLen == 3

IdChars == {"a", ".", "/", "\\", "\n", " "}

IdInputs == SeqsUpTo(IdChars, MaxIdLen)

InitValidate ==
    /\ fs = EmptyFs
    /\ clock = 0
    /\ uuids = 0
    /\ last = NoCall
    /\ proc = Idle
    /\ \E id \in IdInputs : hist = [id |-> id, note |-> FALSE, notebook |-> FALSE]

\* validate_note_id(id) and validate_notebook_id(id): TRUE stands for Ok.
Validate ==
    /\ proc.pc = "idle"
    /\ proc' = [pc |-> "done"]
    /\ hist' = [hist EXCEPT !.note = validate_note_id(hist.id),
                            !.notebook = validate_notebook_id(hist.id)]
    /\ UNCHANGED <<fs, clock, uuids, last>>

NextValidate == Validate

SpecValidate == InitValidate /\ [][NextValidate]_vars

\* C22: an id is rejected exactly when it is empty, is "." or "..", holds
\* / or \, or holds a control character, and the validator of note ids and
\* the validator of notebook ids give the same answer.
C22_ValidateIdRejectsExactly ==
    proc.pc = "done" =>
        /\ hist.note = hist.notebook
        /\ ~hist.note <=>
              \/ hist.id = <<>>
              \/ hist.id \in {<<".">>, <<".", ".">>}
              \/ \E i \in 1..Len(hist.id) : hist.id[i] \in {"/", "\\", "\n"}

\* C22 witness: ".." was rejected by both validators.
C22_Witness ==
    /\ proc.pc = "done"
    /\ hist.id = <<".", ".">>
    /\ ~hist.note /\ ~hist.notebook

(***************************************************************************)
(* PathSandbox: resolve_image_path                                         *)
(* Paths are those of std::path on the platform of storage_root's          *)
(* directory (~/Library/Application Support): "/" separates components,    *)
(* a path is absolute when it starts with "/".                             *)
(***************************************************************************)

\* The parts of a text between its "/" characters.
RECURSIVE SplitSlash(_, _)
SplitSlash(s, cur) ==
    IF s = <<>> THEN <<cur>>
    ELSE IF s[1] = "/" THEN <<cur>> \o SplitSlash(Tail(s), <<>>)
    ELSE SplitSlash(Tail(s), Append(cur, s[1]))

IsName(part) == part # <<>> /\ part # <<".">>

\* Path::components of a path that follows a root or a directory: repeated
\* separators and "." are left out, ".." stays.
Components(s) == SelectSeq(SplitSlash(s, <<>>), IsName)

\* storage_root(app_handle)
StorageRoot == [absolute |-> TRUE, comps |-> <<<<"r">>, <<"a">>>>]

\* Path::join: an absolute path replaces the base.
PathJoin(base, s) ==
    IF s # <<>> /\ s[1] = "/"
    THEN [absolute |-> TRUE, comps |-> Components(s)]
    ELSE [base EXCEPT !.comps = @ \o Components(s)]

\* Path::starts_with: whole components of base at the start of path.
PathStartsWith(path, base) ==
    /\ path.absolute = base.absolute
    /\ Len(path.comps) >= Len(base.comps)
    /\ SubSeq(path.comps, 1, Len(base.comps)) = base.comps

\* str::contains("..")
ContainsDotDot(s) == \E i \in 1..(Len(s) - 1) : s[i] = "." /\ s[i + 1] = "."

\* A resolve_image_path without the test for "..".
resolve_image_path_no_dotdot(relative_path) ==
    LET full == PathJoin(StorageRoot, relative_path)
    IN  IF relative_path # <<>> /\ relative_path[1] = "/"
        THEN [ok |-> FALSE, full |-> StorageRoot]
        ELSE IF ~PathStartsWith(full, StorageRoot)
        THEN [ok |-> FALSE, full |-> StorageRoot]
        ELSE [ok |-> TRUE, full |-> full]

resolve_image_path(relative_path) ==
    LET full == PathJoin(StorageRoot, relative_path)
    IN  IF ContainsDotDot(relative_path)
           \/ (relative_path # <<>> /\ relative_path[1] = "/")
        THEN [ok |-> FALSE, full |-> StorageRoot]
        ELSE IF ~PathStartsWith(full, StorageRoot)
        THEN [ok |-> FALSE, full |-> StorageRoot]
        ELSE [ok |-> TRUE, full |-> full]

MaxPathLen == 4

PathChars == {"a", ".", "/", "r"}

PathInputs == SeqsUpTo(PathChars, MaxPathLen)

InitResolve ==
    /\ fs = EmptyFs
    /\ clock = 0
    /\ uuids = 0
    /\ last = NoCall
    /\ proc = Idle
    /\ \E path \in PathInputs :
          hist = [path |-> path, out |-> [ok |-> FALSE, full |-> StorageRoot]]

Resolve ==
    /\ proc.pc = "idle"
    /\ proc' = [pc |-> "done"]
    /\ hist' = [hist EXCEPT !.out = resolve_image_path(hist.path)]
    /\ UNCHANGED <<fs, clock, uuids, last>>

NextResolve == Resolve

SpecResolve == InitResolve /\ [][NextResolve]_vars

\* C23: resolve_image_path fails for a path that contains ".." or starts
\* with "/", and a path it returns is the root followed by components none
\* of which is "..".
C23_ResolvedPathUnderRoot ==
    proc.pc = "done" =>
        /\ (ContainsDotDot(hist.path) \/ (hist.path # <<>> /\ hist.path[1] = "/"))
              => ~hist.out.ok
        /\ hist.out.ok =>
              /\ hist.out.full.absolute
              /\ SubSeq(hist.out.full.comps, 1, Len(StorageRoot.comps))
                    = StorageRoot.comps
              /\ \A k \in 1..Len(hist.out.full.comps) :
                    hist.out.full.comps[k] # <<".", ".">>

\* C23 witness: a path of two directories deep was resolved below the root.
C23_Witness ==
    /\ proc.pc = "done"
    /\ hist.out.ok
    /\ Len(hist.out.full.comps) = Len(StorageRoot.comps) + 2

(***************************************************************************)
(* Daily notes (checked under Spec)                                        *)
(***************************************************************************)

\* C24 (as claimed): the index never holds two notes with is_daily set that
\* were created on the same day.
C24_OneDailyNotePerDay ==
    \A i, j \in 1..Len(Index.notes) :
        (/\ Index.notes[i].is_daily /\ Index.notes[j].is_daily
         /\ FormatDate(Index.notes[i].created_at)
                = FormatDate(Index.notes[j].created_at)) => i = j

(***************************************************************************)
(* save_note step by step, stopped at any step                             *)
(* A save is stopped when the process ends or when one of its calls        *)
(* returns an error (fs::write at line 339, write_index at line 340).      *)
(***************************************************************************)

\* The number of save calls begun.
MaxStepSaves == 3

StepId == <<"x">>

StepTitles == {<<"a">>, <<"b">>}

StepBodies == {<<"c">>, <<"d">>}

\* No save is under way: none was begun, or the last one returned or stopped.
AtRest == proc.pc \in {"idle", "returned", "stopped"}

InitSteps ==
    /\ fs = init_storage(EmptyFs)
    /\ clock = 0
    /\ uuids = 0
    /\ last = NoCall
    /\ proc = Idle
    /\ hist = [saves |-> 0, order |-> <<>>, snap |-> FALSE, prior_body |-> <<>>]

\* Lines 242-258: the clock is read, the index loaded, the note looked up.
StepBegin(title, body) ==
    /\ AtRest
    /\ hist.saves < MaxStepSaves
    /\ save_plan(fs, Now, Fresh, Some(StepId), title, body).err = ""
    /\ proc' = [pc |-> "snapshot", body |-> body,
                plan |-> save_plan(fs, Now, Fresh, Some(StepId), title, body)]
    /\ clock' = clock + 1
    /\ hist' = [saves |-> hist.saves + 1, order |-> <<"load">>,
                snap |-> InIndex(StepId) /\ body_exists(fs, StepId),
                prior_body |-> read_body(fs, StepId)]
    /\ UNCHANGED <<fs, uuids, last>>

\* Lines 262-277: the snapshot of an existing note with a body file.
StepSnapshot ==
    /\ proc.pc = "snapshot"
    /\ IF takes_snapshot(fs, proc.plan)
       THEN /\ fs' = write_snapshot(fs, StepId, prior_snapshot(fs, proc.plan.prior))
            /\ proc' = [proc EXCEPT !.pc = "prune"]
            /\ hist' = [hist EXCEPT !.order = Append(@, "snapshot")]
       ELSE /\ proc' = [proc EXCEPT !.pc = "body"]
            /\ UNCHANGED <<fs, hist>>
    /\ UNCHANGED <<clock, uuids, last>>

\* Lines 278-289
StepPrune ==
    /\ proc.pc = "prune"
    /\ fs' = prune_versions(fs, StepId)
    /\ proc' = [proc EXCEPT !.pc = "body"]
    /\ UNCHANGED <<clock, uuids, last, hist>>

\* Lines 338-339: fs::write(note_path, body)
StepBody ==
    /\ proc.pc = "body"
    /\ fs' = write_body(fs, StepId, proc.body)
    /\ proc' = [proc EXCEPT !.pc = "index"]
    /\ hist' = [hist EXCEPT !.order = Append(@, "body")]
    /\ UNCHANGED <<clock, uuids, last>>

\* Lines 340-341: write_index, Ok(meta)
StepIndex ==
    /\ proc.pc = "index"
    /\ fs' = write_index(fs, proc.plan.index)
    /\ proc' = [proc EXCEPT !.pc = "returned"]
    /\ hist' = [hist EXCEPT !.order = Append(@, "index")]
    /\ UNCHANGED <<clock, uuids, last>>

\* The save goes no further.
StepStop ==
    /\ proc.pc \in {"snapshot", "prune", "body", "index"}
    /\ proc' = [proc EXCEPT !.pc = "stopped"]
    /\ UNCHANGED <<fs, clock, uuids, last, hist>>

\* delete_note between two saves.
StepDelete ==
    /\ AtRest
    /\ InIndex(StepId)
    /\ fs' = delete_note(fs, StepId).fs
    /\ proc' = Idle
    /\ hist' = [hist EXCEPT !.order = <<"delete">>]
    /\ UNCHANGED <<clock, uuids, last>>

NextSteps ==
    \/ \E title \in StepTitles, body \in StepBodies : StepBegin(title, body)
    \/ StepSnapshot
    \/ StepPrune
    \/ StepBody
    \/ StepIndex
    \/ StepStop
    \/ StepDelete

SpecSteps == InitSteps /\ [][NextSteps]_vars

\* C25 (as claimed): a snapshot file, once written, keeps its content in
\* every later step, and goes away only in the retention step of a save or
\* with the deletion of its note, also when a save is stopped between the
\* write of the body and the store of the index and another save follows.
C25_SnapshotsNeverChange ==
    [][\A dir \in DOMAIN fs.versions :
          \A f \in DOMAIN fs.versions[dir] :
              IF dir \in DOMAIN fs'.versions /\ f \in DOMAIN fs'.versions[dir]
              THEN fs'.versions[dir][f] = fs.versions[dir][f]
              ELSE proc.pc = "prune" \/ hist'.order = <<"delete">>]_vars

\* The steps of a save in the order of the source, for a save that takes a
\* snapshot and for one that does not.
StepOrder(snap) ==
    IF snap THEN <<"load", "snapshot", "body", "index">>
    ELSE <<"load", "body", "index">>

\* The index holds the entry the save under way or last begun was to store.
NewEntryStored ==
    /\ proc.pc # "idle"
    /\ InIndex(StepId)
    /\ NoteOf(StepId).updated_at = proc.plan.meta.updated_at
    /\ NoteOf(StepId).title = proc.plan.meta.title

\* C29: a save goes through its steps in the order load, snapshot, body,
\* index; wherever it is stopped, an index entry with the new title and
\* updated_at comes with the new body on disk and, for a note that had a
\* body, with the snapshot of the prior title and body under the prior
\* updated_at.
C29_SaveStepOrder ==
    /\ hist.order # <<"delete">> => IsPrefix(hist.order, StepOrder(hist.snap))
    /\ NewEntryStored =>
          /\ hist.order = StepOrder(hist.snap)
          /\ read_body(fs, StepId) = proc.body
          /\ hist.snap =>
                [saved_at |-> proc.plan.prior.updated_at,
                 title |-> proc.plan.prior.title,
                 body |-> hist.prior_body] \in Snapshots(fs, StepId)

\* C29 witness: a save of an existing note that changed title and body
\* stored its index entry, after an earlier save was stopped.
C29_Witness ==
    /\ NewEntryStored
    /\ proc.plan.pos > 0 /\ hist.snap
    /\ proc.plan.prior.title # proc.plan.meta.title
    /\ hist.prior_body # proc.body
    /\ hist.saves = MaxStepSaves
    /\ clock > Cardinality(Snapshots(fs, StepId)) + 1

(***************************************************************************)
(* Timestamps of a note (checked under Spec)                               *)
(***************************************************************************)

TimeLeq(a, b) == ~TimeLess(b, a)

\* C26: a call leaves every note that stays in the index with its id and
\* created_at and with an updated_at not less than before, changing
\* updated_at to the time of the call when it changes the note, and every
\* note of the index has created_at not greater than updated_at.
C26_TimestampsMonotone ==
    [][/\ \A i \in 1..Len(Index.notes), j \in 1..Len(Index'.notes) :
             Index.notes[i].id = Index'.notes[j].id =>
                 /\ Index'.notes[j].created_at = Index.notes[i].created_at
                 /\ TimeLeq(Index.notes[i].updated_at, Index'.notes[j].updated_at)
                 /\ Index'.notes[j] # Index.notes[i] =>
                       Index'.notes[j].updated_at = Rfc3339(clock')
       /\ Len(Index'.notes) >= Len(Index.notes) =>
             \A i \in 1..Len(Index.notes) : Index'.notes[i].id = Index.notes[i].id
       /\ \A j \in 1..Len(Index'.notes) :
             TimeLeq(Index'.notes[j].created_at, Index'.notes[j].updated_at)]_vars

\* C26 witness: a note created earlier was moved into a notebook and
\* carries the time of that call as updated_at, after its created_at.
C26_Witness ==
    /\ last.op = "move" /\ last.ok /\ last.existing
    /\ NoteOf(last.id).notebook_id.some
    /\ NoteOf(last.id).updated_at = Rfc3339(clock)
    /\ TimeLess(NoteOf(last.id).created_at, NoteOf(last.id).updated_at)

(***************************************************************************)
(* VersionVault: get_note_version                                          *)
(* A saved_at argument is a text the caller chooses: the text of an        *)
(* instant as to_rfc3339 writes it (colon), or the same text with '-' in   *)
(* place of each ':' (no colon).                                           *)
(***************************************************************************)

\* The number of saves and deletions of the note.
MaxVersionCalls == 3

VerId == <<"x">>

VerTitles == {<<"a">>, <<"b">>}

VerBodies == {<<"c">>, <<"d">>}

AskedTimes == {[t |-> t, colon |-> c] : t \in 1..MaxVersionCalls, c \in BOOLEAN}

NotAsked ==
    [asked |-> Rfc3339(0),
     got |-> [ok |-> FALSE, err |-> "",
              snapshot |-> [saved_at |-> Rfc3339(0), title |-> <<>>, body |-> <<>>]]]

InitVersions ==
    /\ fs = init_storage(EmptyFs)
    /\ clock = 0
    /\ uuids = 0
    /\ last = NoCall
    /\ proc = Idle
    /\ hist = NotAsked

\* save_note(Some(id), title, body)
VerSave(title, body) ==
    /\ clock < MaxVersionCalls
    /\ fs' = save_note(fs, Now, Fresh, Some(VerId), title, body).fs
    /\ clock' = clock + 1
    /\ proc' = Idle
    /\ hist' = NotAsked
    /\ UNCHANGED <<uuids, last>>

\* delete_note(id)
VerDelete ==
    /\ clock < MaxVersionCalls
    /\ InIndex(VerId)
    /\ fs' = delete_note(fs, VerId).fs
    /\ clock' = clock + 1
    /\ proc' = Idle
    /\ hist' = NotAsked
    /\ UNCHANGED <<uuids, last>>

\* get_note_version(id, saved_at)
VerGet(saved_at) ==
    /\ proc' = [pc |-> "got"]
    /\ hist' = [asked |-> saved_at, got |-> get_note_version(fs, VerId, saved_at)]
    /\ UNCHANGED <<fs, clock, uuids, last>>

NextVersions ==
    \/ \E title \in VerTitles, body \in VerBodies : VerSave(title, body)
    \/ VerDelete
    \/ \E saved_at \in AskedTimes : VerGet(saved_at)

SpecVersions == InitVersions /\ [][NextVersions]_vars

\* C27 (as claimed): get_note_version(id, saved_at) returns Ok exactly when
\* the note has a snapshot whose saved_at equals the argument, and then
\* returns that snapshot; otherwise it fails with "Version not found".
C27_GetVersionExact ==
    proc.pc = "got" =>
        /\ hist.got.ok <=>
              \E snap \in Snapshots(fs, VerId) : snap.saved_at = hist.asked
        /\ hist.got.ok => hist.got.snapshot.saved_at = hist.asked
        /\ ~hist.got.ok => hist.got.err = "Version not found"

(***************************************************************************)
(* Annotator: extract_tags_from_body                                       *)
(***************************************************************************)

MaxTagBodyLen == 4

TagBodyChars == {"#", "a", "B", "1", "-", "_", " "}

TagBodies == SeqsUpTo(TagBodyChars, MaxTagBodyLen)

InitTags ==
    /\ fs = EmptyFs
    /\ clock = 0
    /\ uuids = 0
    /\ last = NoCall
    /\ proc = Idle
    /\ \E body \in TagBodies : hist = [body |-> body, out |-> <<>>]

ExtractTags ==
    /\ proc.pc = "idle"
    /\ proc' = [pc |-> "done"]
    /\ hist' = [hist EXCEPT !.out = extract_tags_from_body(hist.body)]
    /\ UNCHANGED <<fs, clock, uuids, last>>

NextTags == ExtractTags

SpecTags == InitTags /\ [][NextTags]_vars

\* A letter, a digit, _ or -.
InTag(c) == c \in Digits \cup UpperCase \cup LowerCase \cup {"_", "-"}

\* The length of the longest run of such characters that starts right after
\* position i of the body.
RunLength(body, i) ==
    CHOOSE k \in 0..(Len(body) - i) :
        /\ \A j \in 1..k : InTag(body[i + j])
        /\ i + k = Len(body) \/ ~InTag(body[i + k + 1])

\* The runs that directly follow a '#', the empty ones left out.
RunsAfterHash(body) ==
    {SubSeq(body, i + 1, i + RunLength(body, i)) :
        i \in {p \in 1..Len(body) : body[p] = "#"}} \ {<<>>}

MaxUndoCalls == 6

UndoId == <<"x">>

OtherId == <<"y">>

UndoTitle == <<"a">>

UndoBodies == {<<"c">>, <<"[", "[", "a">>, <<"]">>}

NotRestored ==
    [title |-> <<>>, body |-> <<>>, fresh |-> Rfc3339(0), ok |-> FALSE]

InitUndo ==
    /\ fs = init_storage(EmptyFs)
    /\ clock = 0
    /\ uuids = 0
    /\ last = NoCall
    /\ proc = Idle
    /\ hist = NotRestored

\* save_note(Some(id), title, body)
UndoSave(id, body) ==
    /\ proc.pc = "idle"
    /\ clock < MaxUndoCalls
    /\ fs' = save_note(fs, Now, Fresh, Some(id), UndoTitle, body).fs
    /\ clock' = clock + 1
    /\ UNCHANGED <<uuids, last, proc, hist>>

\* merge_notes([x, y])
UndoMerge ==
    /\ proc.pc = "idle"
    /\ clock < MaxUndoCalls
    /\ InIndex(UndoId) /\ InIndex(OtherId)
    /\ fs' = merge_notes(fs, Now, <<UndoId, OtherId>>).fs
    /\ clock' = clock + 1
    /\ UNCHANGED <<uuids, last, proc, hist>>

\* restore_note_version(x, saved_at), when it succeeds; the title, the body
\* and the updated_at of the note before the call are remembered.
UndoRestore(saved_at) ==
    /\ proc.pc = "idle"
    /\ clock < MaxUndoCalls
    /\ InIndex(UndoId)
    /\ LET res == restore_note_version(fs, Now, Fresh, UndoId, saved_at)
       IN  /\ res.ok
           /\ fs' = res.fs
    /\ hist' = [title |-> NoteOf(UndoId).title,
                body  |-> read_body(fs, UndoId),
                fresh |-> NoteOf(UndoId).updated_at,
                ok    |-> FALSE]
    /\ clock' = clock + 1
    /\ proc' = [pc |-> "restored"]
    /\ UNCHANGED <<uuids, last>>

\* restore_note_version(x, the updated_at before the first restore)
UndoRestoreFresh ==
    /\ proc.pc = "restored"
    /\ LET res == restore_note_version(fs, Now, Fresh, UndoId, hist.fresh)
       IN  /\ fs' = res.fs
           /\ hist' = [hist EXCEPT !.ok = res.ok]
    /\ clock' = clock + 1
    /\ proc' = [pc |-> "undone"]
    /\ UNCHANGED <<uuids, last>>

NextUndo ==
    \/ \E id \in {UndoId, OtherId}, body \in UndoBodies : UndoSave(id, body)
    \/ UndoMerge
    \/ \E t \in 1..MaxUndoCalls : UndoRestore(Rfc3339(t))
    \/ UndoRestoreFresh

SpecUndo == InitUndo /\ [][NextUndo]_vars

\* C30 (as claimed): after a restore succeeded, restoring the snapshot
\* stamped with the updated_at the note had before it brings the note's
\* title and body back to what they were before the first restore.
C30_RestoreIsUndone ==
    proc.pc = "undone" =>
        /\ NoteOf(UndoId).title = hist.title
        /\ read_body(fs, UndoId) = hist.body

(***************************************************************************)
(* How notes enter and leave the index (whole-call specification)          *)
(***************************************************************************)

\* C31 (as claimed): a note enters the index only through a save without
\* an id, the daily-note helper or duplicate; a save with an explicit id
\* that the index does not hold adds no note.
C31_NotesEnterWithoutExplicitId ==
    [][\A id \in NoteIds \cup InvalidIds :
          (~InIndex(id) /\ InIndex(id)') =>
              \/ last'.op \in {"daily", "duplicate"}
              \/ last'.op = "save" /\ id = Fresh]_vars

\* The lists of two different ids.
DistinctPairs == {ids \in IdLists : Len(ids) = 2 /\ ids[1] # ids[2]}

\* "## <title>", an empty line, the body, an empty line.
Section(id) ==
    <<"#", "#", " ">> \o NoteOf(id).title \o <<"\n", "\n">>
        \o read_body(fs, id) \o <<"\n", "\n">>

\* Of two notes, the one updated first; the first given when they tie.
Older(a, b) ==
    IF TimeLess(NoteOf(b).updated_at, NoteOf(a).updated_at) THEN b ELSE a

Younger(a, b) == IF Older(a, b) = a THEN b ELSE a

\* C32: a successful merge of two different existing notes keeps the first
\* id given and removes the other from the index; the kept note gets the
\* title of the note updated first and, as body, the trimmed concatenation
\* of the two "## <title>" sections, the note updated first in front.
C32_MergeKeepsFirstOldestFirst ==
    [][\A ids \in DistinctPairs :
          (MergeNotes(ids) /\ last'.ok /\ InIndex(ids[1]) /\ InIndex(ids[2])) =>
              /\ InIndex(ids[1])'
              /\ ~InIndex(ids[2])'
              /\ Len(Index.notes') = Len(Index.notes) - 1
              /\ NoteOf(ids[1])'.title = NoteOf(Older(ids[1], ids[2])).title
              /\ read_body(fs', ids[1]) =
                    Trim(Section(Older(ids[1], ids[2]))
                            \o Section(Younger(ids[1], ids[2])))]_vars

\* C32 witness: a merge kept the note that was created second, so that its
\* own section stands behind the section of the other note.
C32_Witness ==
    /\ last.op = "merge"
    /\ last.ok
    /\ last.existing
    /\ Len(Index.notes) = 1
    /\ InIndex(last.id)
    /\ NoteOf(last.id).created_at = Rfc3339(2)
    /\ NoteOf(last.id).updated_at = Rfc3339(3)
    /\ Len(read_body(fs, last.id)) > 12
    /\ SubSeq(read_body(fs, last.id), 1, 3) = <<"#", "#", " ">>

(***************************************************************************)
(* SpecScan: save_note and extract_links_from_body on every short body     *)
(* over '[', ']' and a letter, with an index of two notes titled "a" and   *)
(* "a]a".                                                                  *)
(***************************************************************************)

MaxScanLen == 7

ScanChars == {"[", "]", "a"}

ScanBodies == SeqsUpTo(ScanChars, MaxScanLen)

ScanNotes ==
    << NewNoteMeta(<<"p">>, <<"a">>, Rfc3339(1), <<>>, <<>>, FALSE),
       NewNoteMeta(<<"d">>, <<"a", "]", "a">>, Rfc3339(2), <<>>, <<>>, FALSE) >>

InitScan ==
    /\ fs = write_index(WriteBodies(init_storage(EmptyFs), ScanNotes),
                        [EmptyIndex EXCEPT !.notes = ScanNotes])
    /\ clock = 2
    /\ uuids = 0
    /\ last = NoCall
    /\ proc = Idle
    /\ \E body \in ScanBodies :
          hist = [body |-> body, out |-> <<>>, panic |-> FALSE, err |-> ""]

\* save_note(None, "c", body); the links of the saved note are remembered.
ScanSave ==
    LET res == save_note(fs, Now, Fresh, None, <<"c">>, hist.body)
    IN  /\ proc.pc = "idle"
        /\ fs' = res.fs
        /\ clock' = clock + 1
        /\ uuids' = uuids + (IF res.ok THEN 1 ELSE 0)
        /\ proc' = [pc |-> "done"]
        /\ hist' = [hist EXCEPT
                      !.out = IF res.ok THEN res.meta.links_to ELSE <<>>,
                      !.panic = links_panic(hist.body),
                      !.err = res.err]
        /\ UNCHANGED last

NextScan == ScanSave

SpecScan == InitScan /\ [][NextScan]_vars

\* The texts enclosed between a "[[" and the first "]]" after it, read from
\* left to right; a "[[" that no "]]" follows encloses nothing.
RECURSIVE EnclosedTexts(_)
EnclosedTexts(body) ==
    IF Len(body) < 2 THEN {}
    ELSE IF body[1] = "[" /\ body[2] = "["
    THEN LET rest == SubSeq(body, 3, Len(body))
             ends == {k \in 1..(Len(rest) - 1) : rest[k] = "]" /\ rest[k + 1] = "]"}
             k    == CHOOSE e \in ends : \A f \in ends : e <= f
         IN  IF ends = {} THEN {}
             ELSE {SubSeq(rest, 1, k - 1)}
                      \cup EnclosedTexts(SubSeq(rest, k + 2, Len(rest)))
    ELSE EnclosedTexts(Tail(body))

\* The ids of the notes whose title an enclosed text names.
EnclosedLinks(body) ==
    {ScanNotes[i].id : i \in {j \in 1..Len(ScanNotes) :
        \E t \in EnclosedTexts(body) :
            to_lowercase(Trim(t)) = to_lowercase(ScanNotes[j].title)}}

\* C33 (as claimed): the links of a saved body are those of the texts
\* enclosed between "[[" and a closing "]]", a single ']' inside being part
\* of the text; text that no "]]" closes gives no link.
C33_LinksOnlyFromClosedTokens ==
    (proc.pc = "done" /\ hist.err = "") =>
        SeqToSet(hist.out) = EnclosedLinks(hist.body)

\* C38 (as claimed): save_note returns for every body; no text makes the
\* extraction of links or tags abort.
C38_SaveReturnsForEveryBody ==
    proc.pc = "done" => hist.err # "panic" /\ ~hist.panic

(***************************************************************************)
(* SpecPreview: list_note_versions on a note with up to MaxPreviewFiles    *)
(* snapshot files, as earlier saves left them, whose bodies are about      *)
(* PREVIEW_LEN long and end in one- and two-byte characters.               *)
(***************************************************************************)

MaxPreviewFiles == 2

\* How many characters a body has besides its run of the letter a, and by
\* how many that run may be shorter than PREVIEW_LEN.
MaxPreviewTail == 2

PreviewId == <<"x">>

PreviewTitles == {<<"a">>, <<"b">>}

Fill(n) == [i \in 1..n |-> "a"]

PreviewBodies ==
    {<<"c">>} \cup
    {Fill(n) \o tail : n \in (PREVIEW_LEN - MaxPreviewTail)..PREVIEW_LEN,
                       tail \in SeqsUpTo({"a", EAcute}, MaxPreviewTail)}

\* The snapshot files that saves at the times 2, 3, ... leave of a note
\* whose title and body were contents[1], contents[2], ... at the times
\* 1, 2, ...
RECURSIVE WriteSnapshots(_, _)
WriteSnapshots(f, contents) ==
    IF contents = <<>> THEN f
    ELSE write_snapshot(WriteSnapshots(f, SubSeq(contents, 1, Len(contents) - 1)),
                        PreviewId,
                        [saved_at |-> Rfc3339(Len(contents)),
                         title    |-> contents[Len(contents)].title,
                         body     |-> contents[Len(contents)].body])

NotListed == [listed |-> FALSE, ok |-> FALSE, items |-> <<>>]

InitPreview ==
    /\ \E contents \in SeqsUpTo([title : PreviewTitles, body : PreviewBodies],
                                MaxPreviewFiles) :
          fs = WriteSnapshots(init_storage(EmptyFs), contents)
    /\ clock = MaxPreviewFiles + 1
    /\ uuids = 0
    /\ last = NoCall
    /\ proc = Idle
    /\ hist = NotListed

\* list_note_versions(x)
PreviewList ==
    LET res == list_note_versions(fs, PreviewId)
    IN  /\ proc.pc = "idle"
        /\ proc' = [pc |-> "listed"]
        /\ hist' = [listed |-> TRUE, ok |-> res.ok, items |-> res.items]
        /\ UNCHANGED <<fs, clock, uuids, last>>

NextPreview == PreviewList

SpecPreview == InitPreview /\ [][NextPreview]_vars

\* The whole body when it has at most 150 characters, else its first 150
\* characters and an ellipsis.
PreviewOf(body) ==
    IF Len(body) <= 150 THEN body ELSE Append(SubSeq(body, 1, 150), Ellipsis)

\* C34 (as claimed): list_note_versions returns normally, with one entry
\* per snapshot of the note, newest first, each with the snapshot's title
\* and the preview of its body cut by characters.
C34_VersionsListedWithPreview ==
    hist.listed =>
        /\ hist.ok
        /\ Len(hist.items) = Cardinality(Snapshots(fs, PreviewId))
        /\ \A snap \in Snapshots(fs, PreviewId) :
              \E i \in 1..Len(hist.items) :
                  /\ hist.items[i].saved_at = snap.saved_at
                  /\ hist.items[i].title = snap.title
                  /\ hist.items[i].body_preview = PreviewOf(snap.body)
        /\ \A i \in 1..(Len(hist.items) - 1) :
              TimeLess(hist.items[i + 1].saved_at, hist.items[i].saved_at)

(***************************************************************************)
(* SpecCollide: three notes, two of which have ids that sanitize_filename  *)
(* maps to the same file name, are saved, merged and deleted.              *)
(***************************************************************************)

\* The number of calls.
MaxCollideCalls == 4

\* ":" and "_" are both stored under the name "_".
CollideIds == {<<":">>, <<"_">>, <<"c">>}

CollideTitle == <<"a">>

CollideBodies == {<<"c">>, <<"d">>}

CollidePairs == {<<a, b>> : a, b \in CollideIds}

NoCollideCall == [op |-> "none", ids |-> <<>>, ok |-> TRUE]

InitCollide ==
    /\ fs = init_storage(EmptyFs)
    /\ clock = 0
    /\ uuids = 0
    /\ last = NoCall
    /\ proc = Idle
    /\ hist = NoCollideCall

\* One whole call on the notes `ids`.
CollideReturn(op, ids, res) ==
    /\ clock < MaxCollideCalls
    /\ fs' = res.fs
    /\ clock' = clock + 1
    /\ hist' = [op |-> op, ids |-> ids, ok |-> res.ok]
    /\ UNCHANGED <<uuids, last, proc>>

CollideSave(id, body) ==
    CollideReturn("save", <<id>>,
                  save_note(fs, Now, Fresh, Some(id), CollideTitle, body))

CollideMerge(ids) == CollideReturn("merge", ids, merge_notes(fs, Now, ids))

CollideDelete(id) == CollideReturn("delete", <<id>>, delete_note(fs, id))

CollideBatchDelete(ids) ==
    CollideReturn("batch_delete", ids, batch_delete_notes(fs, ids))

NextCollide ==
    \/ \E id \in CollideIds, body \in CollideBodies : CollideSave(id, body)
    \/ \E ids \in CollidePairs : CollideMerge(ids)
    \/ \E id \in CollideIds : CollideDelete(id)
    \/ \E ids \in CollidePairs : CollideBatchDelete(ids)

SpecCollide == InitCollide /\ [][NextCollide]_vars

\* C35 (as claimed): a call that saves, merges or deletes notes of the
\* index leaves, for every other note of the index, the body read_note
\* returns and the versions list_note_versions returns as they were.
C35_OtherNotesUntouched ==
    [][\A y \in CollideIds :
          (/\ hist'.op \in {"save", "merge", "delete"}
           /\ InIndex(y)
           /\ ~Contains(hist'.ids, y)
           /\ \A i \in 1..Len(hist'.ids) : InIndex(hist'.ids[i])) =>
              /\ read_note(fs', y).body = read_note(fs, y).body
              /\ list_note_versions(fs', y) = list_note_versions(fs, y)]_vars

\* C36 (as claimed): after a successful merge of a list of two or more
\* ids, the first id is in the index and its body file exists.
C36_MergeKeepsFirstId ==
    (hist.op = "merge" /\ hist.ok /\ Len(hist.ids) >= 2) =>
        /\ InIndex(hist.ids[1])
        /\ body_exists(fs, hist.ids[1])

(***************************************************************************)
(* SpecAttach: a note is saved, gets images attached, and attachments are  *)
(* removed by the path of an image file, of the index, of the body, of the *)
(* first snapshot, and by paths that are refused.                          *)
(***************************************************************************)

\* The number of calls.
MaxAttachCalls == 4

AttachId == <<"x">>

AttachNoteIds == {AttachId, <<"y">>, <<"/">>}

AttachBodies == {<<"c">>, <<"d">>}

\* The paths of the image files on disk.
AttachedPaths ==
    {ImagePath([dir |-> dir, file |-> file]) :
        dir \in DOMAIN fs.images, file \in UNION {fs.images[d] : d \in DOMAIN fs.images}}

NoAttachCall ==
    [op |-> "none", id |-> <<>>, path |-> ParentPath, ok |-> TRUE, listed |-> FALSE]

InitAttach ==
    /\ fs = init_storage(EmptyFs)
    /\ clock = 0
    /\ uuids = 0
    /\ last = NoCall
    /\ proc = Idle
    /\ hist = NoAttachCall

AttachReturn(op, id, path, res) ==
    /\ clock < MaxAttachCalls
    /\ fs' = res.fs
    /\ clock' = clock + 1
    /\ hist' = [op |-> op, id |-> id, path |-> path, ok |-> res.ok,
                listed |-> /\ InIndex(id)
                           /\ \E i \in 1..Len(NoteOf(id).images) :
                                 SamePath(NoteOf(id).images[i].path, path)]
    /\ UNCHANGED <<uuids, last, proc>>

AttachSave(body) ==
    AttachReturn("save", AttachId, ParentPath,
                 save_note(fs, Now, Fresh, Some(AttachId), <<"a">>, body))

AttachAdd ==
    AttachReturn("attach", AttachId, ParentPath,
                 attach_image_from_clipboard(fs, Now, AttachId, <<"p">>))

RemoveAttachment(id, path) ==
    AttachReturn("remove", id, path, remove_attachment(fs, Now, id, path))

NextAttach ==
    \/ \E body \in AttachBodies : AttachSave(body)
    \/ AttachAdd
    \/ \E id \in AttachNoteIds, path \in AttachedPaths : RemoveAttachment(id, path)
    \/ \E id \in AttachNoteIds : RemoveAttachment(id, IndexPath)
    \/ \E id \in AttachNoteIds : RemoveAttachment(id, BodyPath(note_path(AttachId)))
    \/ \E id \in AttachNoteIds :
          RemoveAttachment(id, VersionPath(versions_dir(AttachId),
                                           version_filename(Rfc3339(1))))
    \/ \E id \in AttachNoteIds, path \in {ParentPath, AbsolutePath} :
          RemoveAttachment(id, path)

SpecAttach == InitAttach /\ [][NextAttach]_vars

\* C37 (as claimed): remove_attachment removes a file only when the path is
\* that of an entry of the note's images list and the call succeeds; in
\* every other case the index file, the bodies, the snapshots and the image
\* files are all still there.
C37_RemovesOnlyListedAttachment ==
    [][(hist'.op = "remove" /\ ~(hist'.listed /\ hist'.ok)) =>
          /\ fs.index.exists => fs'.index.exists
          /\ DOMAIN fs'.notes = DOMAIN fs.notes
          /\ fs'.versions = fs.versions
          /\ fs'.images = fs.images]_vars

\* C39 (as claimed): once delete_note, batch_delete_notes or merge_notes
\* has taken a note out of the index, list_note_versions of its id is
\* empty and restore_note_version of its id fails for every saved_at.
C39_NoSnapshotsOfRemovedNotes ==
    [][\A id \in CollideIds :
          (/\ hist'.op \in {"delete", "batch_delete", "merge"}
           /\ InIndex(id)
           /\ ~InIndex(id)') =>
              /\ list_note_versions(fs', id).items = <<>>
              /\ \A t \in 1..MaxCollideCalls :
                    ~restore_note_version(fs', Rfc3339(clock' + 1), Uuid(1), id,
                                          Rfc3339(t)).ok]_vars

(***************************************************************************)
(* SpecErrors: the operations that change notes, called with the id of a   *)
(* note of the index, an id the index does not hold, and an invalid id.    *)
(***************************************************************************)

\* The number of calls.
MaxErrorCalls == 4

KnownId == <<"x">>

ErrorIds == {KnownId, <<"y">>, <<"/">>}

ErrorBodies == {<<"c">>, <<"#", "a">>}

ErrorNotebooks == {None, Some(<<"n">>), Some(<<"/">>)}

ErrorLists ==
    {<<KnownId>>, <<KnownId, <<"y">>>>, <<<<"y">>, KnownId>>, <<KnownId, <<"/">>>>}

\* The messages of the validation and not-found errors.
ErrorKinds ==
    {"Invalid note id", "Invalid notebook id", NotFound, "Notebook not found",
     "Version not found"}

NoErrorCall == [op |-> "none", err |-> ""]

InitErrors ==
    /\ fs = init_storage(EmptyFs)
    /\ clock = 0
    /\ uuids = 0
    /\ last = NoCall
    /\ proc = Idle
    /\ hist = NoErrorCall

\* One whole call.
ErrorReturn(op, res) ==
    /\ clock < MaxErrorCalls
    /\ fs' = res.fs
    /\ clock' = clock + 1
    /\ hist' = [op |-> op, err |-> res.err]
    /\ UNCHANGED <<uuids, last, proc>>

ErrSave(id, body) ==
    ErrorReturn("save", save_note(fs, Now, Fresh, Some(id), <<"a">>, body))

ErrToggle(id) == ErrorReturn("toggle", toggle_important(fs, Now, id, TRUE))

ErrTitle(id) == ErrorReturn("title", update_note_title(fs, Now, id, <<"b">>))

ErrRemoveTag(id) ==
    ErrorReturn("remove_tag", remove_tag_from_note(fs, Now, id, <<"a">>))

ErrMove(id, notebook_id) ==
    ErrorReturn("move", move_note_to_notebook(fs, Now, id, notebook_id))

ErrDelete(id) == ErrorReturn("delete", delete_note(fs, id))

ErrBatchDelete(ids) == ErrorReturn("batch_delete", batch_delete_notes(fs, ids))

ErrMerge(ids) == ErrorReturn("merge", merge_notes(fs, Now, ids))

ErrRestore(id, saved_at) ==
    ErrorReturn("restore", restore_note_version(fs, Now, Fresh, id, saved_at))

NextErrors ==
    \/ \E id \in ErrorIds, body \in ErrorBodies : ErrSave(id, body)
    \/ \E id \in ErrorIds : ErrToggle(id)
    \/ \E id \in ErrorIds : ErrTitle(id)
    \/ \E id \in ErrorIds : ErrRemoveTag(id)
    \/ \E id \in ErrorIds, notebook_id \in ErrorNotebooks : ErrMove(id, notebook_id)
    \/ \E id \in ErrorIds : ErrDelete(id)
    \/ \E ids \in ErrorLists : ErrBatchDelete(ids)
    \/ \E ids \in ErrorLists : ErrMerge(ids)
    \/ \E id \in ErrorIds, t \in 1..MaxErrorCalls : ErrRestore(id, Rfc3339(t))

SpecErrors == InitErrors /\ [][NextErrors]_vars

\* C40: a call that returns a validation or not-found error leaves the
\* index file, every body file and every snapshot file as they were.
C40_ErrorsChangeNothing ==
    [][hist'.err \in ErrorKinds =>
          /\ fs'.index = fs.index
          /\ fs'.notes = fs.notes
          /\ fs'.versions = fs.versions]_vars

\* C40 witness: a batch delete was refused for an invalid id while the note
\* named next to it has its body and a snapshot.
C40_Witness ==
    /\ hist.op = "batch_delete"
    /\ hist.err = "Invalid note id"
    /\ InIndex(KnownId)
    /\ body_exists(fs, KnownId)
    /\ Snapshots(fs, KnownId) # {}

=============================================================================
